---- MODULE Spec2Model ----
(***************************************************************************)
(* Model of the dpmaster client crate: the wire codec of src/src/parse.rs  *)
(* and the *_commands.rs writers, and the two UDP query clients of         *)
(* src/src/client.rs (Master: discovery, Game: per-server info/status).    *)
(*                                                                         *)
(* Bytes are naturals 0..255 and byte strings are sequences of bytes.      *)
(* Time is discrete; a clock tick is the unit in which timeouts are given. *)
(***************************************************************************)
EXTENDS Integers, Sequences, FiniteSets, Bags, TLC

\* ------------------------------------------------------------------------
\* Bounds of the model
\* ------------------------------------------------------------------------
\* datagrams one call may receive before the network goes silent
MaxRecv == 2
\* calls made on one (reused) client
MaxCalls == 2
\* largest caller-supplied timeout, in clock ticks
MaxTimeout == 2
\* length in bytes of the large datagram
BigLen == 701
\* length of the long address list handed to the fan-out
MaxAddrs == 17
\* entries of a discovery response handed to a decoder
MaxEntries == 3
\* player lines of a status response handed to a decoder
MaxPlayers == 2
\* length of the byte strings handed to the key-value decoder
MaxKvLen == 4

\* ------------------------------------------------------------------------
\* Program constants
\* ------------------------------------------------------------------------
MAX_PACKET_LEN == 1400
I32_MAX == 2147483647

PREFIX == <<255, 255, 255, 255>>
OOB == PREFIX
EOT == <<92, 69, 79, 84, 0, 0, 0>>
BACKSLASH == 92
SLASH == 47
NEWLINE == 10
SPACE == 32
DQUOTE == 34
MINUS == 45

B_getserversResponse ==
    <<103, 101, 116, 115, 101, 114, 118, 101, 114, 115,
      82, 101, 115, 112, 111, 110, 115, 101>>
B_getserversExtResponse ==
    <<103, 101, 116, 115, 101, 114, 118, 101, 114, 115,
      69, 120, 116, 82, 101, 115, 112, 111, 110, 115, 101>>
B_infoResponse ==
    <<105, 110, 102, 111, 82, 101, 115, 112, 111, 110, 115, 101, 10>>
B_statusResponse ==
    <<115, 116, 97, 116, 117, 115, 82, 101, 115, 112, 111, 110, 115, 101, 10>>
B_getservers == <<103, 101, 116, 115, 101, 114, 118, 101, 114, 115>>
B_getserversExt == <<103, 101, 116, 115, 101, 114, 118, 101, 114, 115, 69, 120, 116>>
B_getinfo == <<103, 101, 116, 105, 110, 102, 111>>
B_getstatus == <<103, 101, 116, 115, 116, 97, 116, 117, 115>>
B_empty == <<32, 101, 109, 112, 116, 121>>
B_full == <<32, 102, 117, 108, 108>>
B_ipv4 == <<32, 105, 112, 118, 52>>
B_ipv6 == <<32, 105, 112, 118, 54>>

\* ------------------------------------------------------------------------
\* Byte-string helpers
\* ------------------------------------------------------------------------
Min(a, b) == IF a <= b THEN a ELSE b
Max(a, b) == IF a >= b THEN a ELSE b

StartsWith(i, t) == Len(i) >= Len(t) /\ SubSeq(i, 1, Len(t)) = t
Drop(i, n) == SubSeq(i, n + 1, Len(i))
Take(i, n) == SubSeq(i, 1, n)

\* Only({e : x \in {v}}) is LET x == v IN e, with v evaluated exactly once
\* however often e uses x
Only(S) == CHOOSE x \in S : TRUE

\* A Vec<u8> of MAX_PACKET_LEN zero bytes is kept as the prefix that has been
\* written so far; every byte behind the prefix still is the initial zero.
Zeros(n) == IF n <= 0 THEN <<>> ELSE [k \in 1..n |-> 0]
\* bytes of the half-open, zero-based range [a, b) of the buffer
BufSlice(buf, a, b) ==
    SubSeq(buf, a + 1, Min(b, Len(buf))) \o Zeros(b - Max(a, Len(buf)))
\* a write of d at zero-based offset pos, leaving the other bytes alone
BufWrite(buf, pos, d) ==
    BufSlice(buf, 0, pos) \o d \o SubSeq(buf, pos + Len(d) + 1, Len(buf))

\* ------------------------------------------------------------------------
\* parse.rs: nom parsers.  A result is [k |-> "ok", v |-> value, rest |-> i']
\* or [k |-> "err"] (nom Error, recoverable), [k |-> "fail"] (nom Failure,
\* after cut) or [k |-> "panic"] (an unwrap that aborts).
\* ------------------------------------------------------------------------
POk(v, rest) == [k |-> "ok", v |-> v, rest |-> rest]
PErr == [k |-> "err"]
PFail == [k |-> "fail"]
PPanic == [k |-> "panic"]

\* two bytes read with the low byte first
u16_from_le_bytes(b) == b[2] * 256 + b[1]

u16_from_be_bytes(b) == b[1] * 256 + b[2]

\* a marker test that takes any four bytes for the marker
oob_any_four_bytes(i) ==
    IF Len(i) >= Len(OOB) THEN POk(SubSeq(i, 1, Len(OOB)), Drop(i, Len(OOB))) ELSE PErr

oob(i) == IF StartsWith(i, OOB) THEN POk(OOB, Drop(i, Len(OOB))) ELSE PErr

eot(i) == IF StartsWith(i, EOT) THEN POk(EOT, Drop(i, Len(EOT))) ELSE PErr

\* The 32 address bits are kept as two 16-bit halves, high half first.
socket_addr_v4(i) ==
    IF Len(i) >= 1 /\ i[1] = BACKSLASH /\ Len(i) >= 7
    THEN POk([fam |-> 4,
              ip |-> <<u16_from_be_bytes(SubSeq(i, 2, 3)),
                       u16_from_be_bytes(SubSeq(i, 4, 5))>>,
              port |-> u16_from_be_bytes(SubSeq(i, 6, 7))],
             Drop(i, 7))
    ELSE PErr

\* The 128 address bits are kept as eight 16-bit segments, highest first.
socket_addr_v6(i) ==
    IF Len(i) >= 1 /\ i[1] = SLASH /\ Len(i) >= 19
    THEN POk([fam |-> 6,
              ip |-> [s \in 1..8 |-> u16_from_be_bytes(SubSeq(i, 2 * s, 2 * s + 1))],
              port |-> u16_from_be_bytes(SubSeq(i, 18, 19)),
              flowinfo |-> 0, scope_id |-> 0],
             Drop(i, 19))
    ELSE PErr

\* a dispatch that knows the IPv4 entry only
socket_addr_v4_only(i) == socket_addr_v4(i)

socket_addr(i) ==
    Only({ IF r4.k = "ok" THEN r4 ELSE socket_addr_v6(i) : r4 \in {socket_addr_v4(i)} })

\* alt((eot.map(Right), entry.map(Left))) of the discovery responses
\* the alternative with its branches swapped: the address is tried first
addr_or_eot(ext, i) ==
    Only({ IF a.k = "ok" THEN POk([right |-> FALSE, addr |-> a.v], a.rest)
           ELSE Only({ IF e.k = "ok" THEN POk([right |-> TRUE], e.rest) ELSE PErr
                       : e \in {eot(i)} })
           : a \in {IF ext THEN socket_addr(i) ELSE socket_addr_v4(i)} })

eot_or_addr(ext, i) ==
    Only({ IF e.k = "ok" THEN POk([right |-> TRUE], e.rest)
           ELSE Only({ IF a.k = "ok" THEN POk([right |-> FALSE, addr |-> a.v], a.rest)
                       ELSE PErr
                       : a \in {IF ext THEN socket_addr(i) ELSE socket_addr_v4(i)} })
           : e \in {eot(i)} })

\* many0 over eot_or_addr: the list of Left/Right items and the leftover
RECURSIVE many0_entries(_, _, _)
many0_entries(ext, i, acc) ==
    Only({ IF r.k = "ok" THEN many0_entries(ext, r.rest, Append(acc, r.v))
           ELSE POk(acc, i)
           : r \in {eot_or_addr(ext, i)} })

\* the addresses of the Left items of list[n..], in order
RECURSIVE lefts(_, _)
lefts(list, n) ==
    IF n > Len(list) THEN <<>>
    ELSE IF list[n].right THEN lefts(list, n + 1)
         ELSE <<list[n].addr>> \o lefts(list, n + 1)

\* body shared by getserversResponse (ext = FALSE) and getserversExtResponse
discovery_response(ext, i) ==
    Only({ IF o.k # "ok" THEN PErr
           ELSE IF ~StartsWith(o.rest, name) THEN PErr
           ELSE Only({ LET contains_eot == m.v # <<>> /\ m.v[Len(m.v)].right IN
                       Only({ POk([addresses |-> lefts(popped, 1),
                                   contains_eot |-> contains_eot], m.rest)
                              : popped \in {IF contains_eot
                                            THEN SubSeq(m.v, 1, Len(m.v) - 1)
                                            ELSE m.v} })
                       : m \in {many0_entries(ext, Drop(o.rest, Len(name)), <<>>)} })
           : o \in {oob(i)},
             name \in {IF ext THEN B_getserversExtResponse ELSE B_getserversResponse} })

getserversResponse(i) == discovery_response(FALSE, i)
getserversExtResponse(i) == discovery_response(TRUE, i)

\* master_server_commands.rs: Result<(left, response), ParseResponseError>
GetServersResponse_parse(bytes) ==
    Only({ IF r.k = "ok"
           THEN [ok |-> TRUE, left |-> r.rest, addresses |-> r.v.addresses,
                 kind |-> IF r.v.contains_eot THEN "Eot" ELSE "Single"]
           ELSE [ok |-> FALSE]
           : r \in {getserversResponse(bytes)} })

GetServersExtResponse_parse(bytes) ==
    Only({ IF r.k = "ok"
           THEN [ok |-> TRUE, left |-> r.rest, addresses |-> r.v.addresses,
                 kind |-> IF r.v.contains_eot THEN "Eot" ELSE "Single"]
           ELSE [ok |-> FALSE]
           : r \in {getserversExtResponse(bytes)} })

DiscoveryParse(ext, bytes) ==
    IF ext THEN GetServersExtResponse_parse(bytes) ELSE GetServersResponse_parse(bytes)

\* ------------------------------------------------------------------------
\* parse.rs: key-value runs, info and status responses
\* ------------------------------------------------------------------------
\* take_while: the number of bytes of i behind its first `from` bytes that
\* are in the set `keep`, up to the first that is not
TakeWhileLen(i, from, keep) ==
    Only({ IF bad = {} THEN Len(i) - from
           ELSE (CHOOSE k \in bad : \A j \in bad : k <= j) - from - 1
           : bad \in {{k \in (from + 1)..Len(i) : i[k] \notin keep}} })

Bytes == 0..255
NotBackslash == Bytes \ {BACKSLASH}
NotBackslashNorNewline == Bytes \ {BACKSLASH, NEWLINE}
is_ascii_digit == 48..57

\* one \key\value repetition of key_value_map: the key is the kl bytes behind
\* the first backslash, the value the vl bytes behind the second
key_value_pair(i) ==
    IF ~StartsWith(i, <<BACKSLASH>>) THEN PErr
    ELSE Only({
         IF ~(Len(i) >= kl + 2 /\ i[kl + 2] = BACKSLASH) THEN PErr
         ELSE Only({ POk(<<SubSeq(i, 2, kl + 1), SubSeq(i, kl + 3, kl + 2 + vl)>>,
                         Drop(i, kl + 2 + vl))
                     : vl \in {TakeWhileLen(i, kl + 2, NotBackslashNorNewline)} })
         : kl \in {TakeWhileLen(i, 1, NotBackslash)} })

\* many1: the repetitions after the first stop at the first recoverable error
RECURSIVE many_key_value_pairs(_, _)
many_key_value_pairs(i, acc) ==
    Only({ IF r.k = "ok" THEN many_key_value_pairs(r.rest, Append(acc, r.v))
           ELSE POk(acc, i)
           : r \in {key_value_pair(i)} })

\* collect() into a HashMap: a later pair replaces an earlier one of its key
pairs_to_map(pairs) ==
    LET keys == {pairs[n][1] : n \in 1..Len(pairs)}
        last(key) == CHOOSE n \in 1..Len(pairs) :
                        /\ pairs[n][1] = key
                        /\ \A m \in 1..Len(pairs) : pairs[m][1] = key => m <= n
    IN [key \in keys |-> pairs[last(key)][2]]

\* a run that may be empty: many0 in place of many1
key_value_map_or_nothing(i) ==
    Only({ POk(pairs_to_map(m.v), m.rest) : m \in {many_key_value_pairs(i, <<>>)} })

key_value_map(i) ==
    Only({ IF first.k # "ok" THEN PErr
           ELSE Only({ POk(pairs_to_map(m.v), m.rest)
                       : m \in {many_key_value_pairs(first.rest, <<first.v>>)} })
           : first \in {key_value_pair(i)} })

infoResponse(i) ==
    Only({ IF o.k # "ok" THEN PErr
           ELSE IF ~StartsWith(o.rest, B_infoResponse) THEN PErr
           ELSE key_value_map(Drop(o.rest, Len(B_infoResponse)))
           : o \in {oob(i)} })

\* tag("\""), take_until("\""), tag("\"")
dquoted_string(i) ==
    IF ~StartsWith(i, <<DQUOTE>>) THEN PErr
    ELSE Only({ IF quotes = {} THEN PErr
                ELSE Only({ POk(SubSeq(i, 2, q - 1), Drop(i, q))
                            : q \in {CHOOSE k \in quotes : \A j \in quotes : k <= j} })
                : quotes \in {{k \in 2..Len(i) : i[k] = DQUOTE}} })

\* std::str::from_utf8 succeeds on these inputs iff every byte is below 0x80
\* (the only other byte the inputs carry is 0xFF, which no UTF-8 text holds)
from_utf8_ok(bytes) == \A k \in 1..Len(bytes) : bytes[k] < 128

dquoted_ascii(i) ==
    Only({ IF r.k = "ok" /\ ~from_utf8_ok(r.v) THEN PErr ELSE r
           : r \in {dquoted_string(i)} })

take_ascii_digits(i) ==
    Only({ IF n = 0 THEN PErr ELSE POk(Take(i, n), Drop(i, n))
           : n \in {TakeWhileLen(i, 0, is_ascii_digit)} })

\* the token of a signed integer; a '-' without digits is a Failure (cut)
int(i) ==
    IF StartsWith(i, <<MINUS>>)
    THEN Only({ IF d.k = "ok" THEN POk(<<MINUS>> \o d.v, d.rest) ELSE PFail
                : d \in {take_ascii_digits(Drop(i, 1))} })
    ELSE take_ascii_digits(i)

I32_MIN == (-I32_MAX) - 1

\* str::parse::<i32>: digit by digit from position n of the token, with
\* checked arithmetic, adding for a positive and subtracting for a negative
\* token; ok is FALSE when the value leaves the i32 range (the Err that the
\* caller unwraps)
RECURSIVE parse_i32_digits(_, _, _, _)
parse_i32_digits(token, n, acc, neg) ==
    IF n > Len(token) THEN [ok |-> TRUE, v |-> acc]
    ELSE IF neg
         THEN IF acc < -214748364 \/ acc * 10 < I32_MIN + (token[n] - 48)
              THEN [ok |-> FALSE, v |-> 0]
              ELSE parse_i32_digits(token, n + 1, acc * 10 - (token[n] - 48), neg)
         ELSE IF acc > 214748364 \/ acc * 10 > I32_MAX - (token[n] - 48)
              THEN [ok |-> FALSE, v |-> 0]
              ELSE parse_i32_digits(token, n + 1, acc * 10 + (token[n] - 48), neg)

parse_i32(token) ==
    IF token[1] = MINUS THEN parse_i32_digits(token, 2, 0, TRUE)
    ELSE parse_i32_digits(token, 1, 0, FALSE)

\* the tuple of player(): its error is that of the first part that fails
player_tuple(i) ==
    Only({
    IF frags.k # "ok" THEN frags
    ELSE IF ~StartsWith(frags.rest, <<SPACE>>) THEN PErr
    ELSE Only({
    IF ping.k # "ok" THEN ping
    ELSE IF ~StartsWith(ping.rest, <<SPACE>>) THEN PErr
    ELSE Only({
    IF name.k # "ok" THEN name
    ELSE IF ~StartsWith(name.rest, <<SPACE>>) THEN PErr
    ELSE Only({
    IF team.k # "ok" THEN team
    ELSE IF ~StartsWith(team.rest, <<NEWLINE>>) THEN PErr
    ELSE POk([frags |-> frags.v, ping |-> ping.v, name |-> name.v, team |-> team.v],
             Drop(team.rest, 1))
    : team \in {int(Drop(name.rest, 1))} })
    : name \in {dquoted_ascii(Drop(ping.rest, 1))} })
    : ping \in {int(Drop(frags.rest, 1))} })
    : frags \in {int(i)} })

\* player(): the tuple, then the three .parse().unwrap() conversions
player(i) ==
    Only({ IF t.k # "ok" THEN t
           ELSE Only({ IF ~(frags.ok /\ ping.ok /\ team.ok) THEN PPanic
                       ELSE POk([frags |-> frags.v, ping |-> ping.v, name |-> t.v.name,
                                 team |-> team.v], t.rest)
                       : frags \in {parse_i32(t.v.frags)},
                         ping \in {parse_i32(t.v.ping)},
                         team \in {parse_i32(t.v.team)} })
           : t \in {player_tuple(i)} })

RECURSIVE many_players(_, _)
many_players(i, acc) ==
    Only({ IF r.k = "ok" THEN many_players(r.rest, Append(acc, r.v))
           ELSE IF r.k = "err" THEN POk(acc, i)
           ELSE r
           : r \in {player(i)} })

\* many1(player)
player_infos(i) ==
    Only({ IF first.k # "ok" THEN first ELSE many_players(first.rest, <<first.v>>)
           : first \in {player(i)} })

\* cut(): a recoverable error becomes a Failure
cut(r) == IF r.k = "err" THEN PFail ELSE r

\* first alternative of statusResponse: key-value run, newline, players
status_with_players(i) ==
    Only({
    IF o.k # "ok" THEN PErr
    ELSE IF ~StartsWith(o.rest, B_statusResponse) THEN PErr
    ELSE Only({
    IF kv.k # "ok" THEN cut(kv)
    ELSE IF ~StartsWith(kv.rest, <<NEWLINE>>) THEN PErr
    ELSE Only({
    IF ps.k # "ok" THEN cut(ps)
    ELSE POk([key_values |-> kv.v, player_infos |-> ps.v], ps.rest)
    : ps \in {player_infos(Drop(kv.rest, 1))} })
    : kv \in {key_value_map(Drop(o.rest, Len(B_statusResponse)))} })
    : o \in {oob(i)} })

\* second alternative: key-value run only
status_without_players(i) ==
    Only({
    IF o.k # "ok" THEN PErr
    ELSE IF ~StartsWith(o.rest, B_statusResponse) THEN PErr
    ELSE Only({
    IF kv.k # "ok" THEN cut(kv)
    ELSE POk([key_values |-> kv.v, player_infos |-> <<>>], kv.rest)
    : kv \in {key_value_map(Drop(o.rest, Len(B_statusResponse)))} })
    : o \in {oob(i)} })

\* alt: the second alternative is tried only after a recoverable error
statusResponse(i) ==
    Only({ IF a.k = "err" THEN status_without_players(i) ELSE a
           : a \in {status_with_players(i)} })

\* String::from_utf8_lossy: an ASCII byte is kept, any other byte becomes
\* U+FFFD (the inputs hold no multi-byte UTF-8 text)
from_utf8_lossy(bytes) == [k \in 1..Len(bytes) |-> IF bytes[k] < 128 THEN bytes[k] ELSE 65533]

\* the HashMap<&[u8], &[u8]> collected into a HashMap<String, String>
lossy_map(kv) ==
    LET keys == {from_utf8_lossy(key) : key \in DOMAIN kv}
    IN [s \in keys |-> from_utf8_lossy(kv[CHOOSE key \in DOMAIN kv : from_utf8_lossy(key) = s])]

\* game_server_commands.rs
InfoResponse_parse(bytes) ==
    Only({ IF r.k = "ok"
           THEN [kind |-> "Ok", left |-> r.rest, key_values |-> lossy_map(r.v)]
           ELSE [kind |-> "ParseResponseError"]
           : r \in {infoResponse(bytes)} })

StatusResponse_parse(bytes) ==
    Only({ IF r.k = "ok"
           THEN [kind |-> "Ok", left |-> r.rest,
                 key_values |-> lossy_map(r.v.key_values),
                 player_infos |-> r.v.player_infos]
           ELSE IF r.k = "panic" THEN [kind |-> "panic"]
           ELSE [kind |-> "ParseResponseError"]
           : r \in {statusResponse(bytes)} })

\* a challenge check that lets every ASCII byte but the five excluded pass
challenge_byte_ok_any_ascii(b) ==
    IF b \in {BACKSLASH, SLASH, 59, DQUOTE, 37} THEN FALSE
    ELSE IF b >= 0 /\ b <= 127 THEN TRUE
    ELSE FALSE

\* the challenge check shared by write_get_info and write_get_status
challenge_byte_ok(b) ==
    IF b \in {BACKSLASH, SLASH, 59, DQUOTE, 37} THEN FALSE
    ELSE IF b >= 33 /\ b <= 126 THEN TRUE
    ELSE FALSE

\* a writer that tests the challenge only after it has written the command
write_get_info_checks_late(challenge) ==
    IF ~(\A k \in 1..Len(challenge) : challenge_byte_ok(challenge[k]))
    THEN [err |-> "InvalidChallengeCharacter",
          bytes |-> PREFIX \o B_getinfo \o <<SPACE>>, written |-> 0]
    ELSE [err |-> "none",
          bytes |-> PREFIX \o B_getinfo \o <<SPACE>> \o challenge,
          written |-> Len(PREFIX) + Len(B_getinfo) + Len(<<SPACE>>) + Len(challenge)]

write_get_info(challenge) ==
    IF ~(\A k \in 1..Len(challenge) : challenge_byte_ok(challenge[k]))
    THEN [err |-> "InvalidChallengeCharacter", bytes |-> <<>>, written |-> 0]
    ELSE [err |-> "none",
          bytes |-> PREFIX \o B_getinfo \o <<SPACE>> \o challenge,
          written |-> Len(PREFIX) + Len(B_getinfo) + Len(<<SPACE>>) + Len(challenge)]

write_get_status(challenge) ==
    IF ~(\A k \in 1..Len(challenge) : challenge_byte_ok(challenge[k]))
    THEN [err |-> "InvalidChallengeCharacter", bytes |-> <<>>, written |-> 0]
    ELSE [err |-> "none",
          bytes |-> PREFIX \o B_getstatus \o <<SPACE>> \o challenge,
          written |-> Len(PREFIX) + Len(B_getstatus) + Len(<<SPACE>>) + Len(challenge)]

\* ------------------------------------------------------------------------
\* master_server_commands.rs: request writers.  A writer's result is the
\* byte string its write_all calls put into the writer, in order, and the
\* length it returns, which the code computes separately.
\* An Option<&[u8]> is [some |-> BOOLEAN, v |-> bytes].
\* ------------------------------------------------------------------------
None == [some |-> FALSE, v |-> <<>>]
Some(v) == [some |-> TRUE, v |-> v]

\* a length helper that counts one byte too many
u64_len_one_more(a) == Len(a) + 1

u64_len(a) == Len(a)

\* a filter writer that emits " full" before " empty"
GetServersFilter_write_full_first(f) ==
    [bytes |-> (IF f.full THEN B_full ELSE <<>>)
               \o (IF f.empty THEN B_empty ELSE <<>>)
               \o (IF f.gametype.some THEN <<SPACE>> \o f.gametype.v ELSE <<>>),
     written |-> (IF f.empty THEN u64_len(B_empty) ELSE 0)
                 + (IF f.full THEN u64_len(B_full) ELSE 0)
                 + (IF f.gametype.some
                    THEN u64_len(<<SPACE>>) + u64_len(f.gametype.v) ELSE 0)]

GetServersFilter_write(f) ==
    [bytes |-> (IF f.empty THEN B_empty ELSE <<>>)
               \o (IF f.full THEN B_full ELSE <<>>)
               \o (IF f.gametype.some THEN <<SPACE>> \o f.gametype.v ELSE <<>>),
     written |-> (IF f.empty THEN u64_len(B_empty) ELSE 0)
                 + (IF f.full THEN u64_len(B_full) ELSE 0)
                 + (IF f.gametype.some
                    THEN u64_len(<<SPACE>>) + u64_len(f.gametype.v) ELSE 0)]

write_get_servers(game_name, protocol_version, filter) ==
    LET fw == GetServersFilter_write(filter)
    IN [bytes |-> PREFIX \o B_getservers
                  \o (IF game_name.some THEN <<SPACE>> \o game_name.v ELSE <<>>)
                  \o <<SPACE>> \o protocol_version \o fw.bytes,
        written |-> (IF game_name.some
                     THEN u64_len(<<SPACE>>) + u64_len(game_name.v) ELSE 0)
                    + fw.written
                    + u64_len(PREFIX) + u64_len(B_getservers) + u64_len(<<SPACE>>)
                    + u64_len(protocol_version)]

GetServersExtFilter_write(f) ==
    [bytes |-> (IF f.empty THEN B_empty ELSE <<>>)
               \o (IF f.full THEN B_full ELSE <<>>)
               \o (IF f.gametype.some THEN <<SPACE>> \o f.gametype.v ELSE <<>>)
               \o (IF f.ipv4 THEN B_ipv4 ELSE <<>>)
               \o (IF f.ipv6 THEN B_ipv6 ELSE <<>>),
     written |-> (IF f.empty THEN u64_len(B_empty) ELSE 0)
                 + (IF f.full THEN u64_len(B_full) ELSE 0)
                 + (IF f.gametype.some
                    THEN u64_len(<<SPACE>>) + Len(f.gametype.v) ELSE 0)
                 + (IF f.ipv4 THEN u64_len(B_ipv4) ELSE 0)
                 + (IF f.ipv6 THEN u64_len(B_ipv6) ELSE 0)]

\* game_name is an Option that is always Some here (the parameter is &[u8])
write_get_servers_ext(game_name, protocol_version, filter) ==
    LET fw == GetServersExtFilter_write(filter)
    IN [bytes |-> PREFIX \o B_getserversExt \o <<SPACE>> \o game_name.v
                  \o <<SPACE>> \o protocol_version \o fw.bytes,
        written |-> fw.written + Len(PREFIX) + u64_len(B_getserversExt)
                    + u64_len(<<SPACE>>) + u64_len(game_name.v)
                    + u64_len(<<SPACE>>) + u64_len(protocol_version)]

\* ------------------------------------------------------------------------
\* lib.rs: the request builders of MasterServer.  name and protocol_version
\* are &str, given here as their UTF-8 bytes (as_bytes); the result is the
\* Vec<u8> built by the extend calls, in order.
\* ------------------------------------------------------------------------
create_get_servers(name, protocol_version, full, empty) ==
    PREFIX \o B_getservers \o <<SPACE>> \o name \o <<SPACE>> \o protocol_version
    \o (IF full THEN <<SPACE>> \o <<101, 109, 112, 116, 121>> ELSE <<>>)
    \o (IF empty THEN <<SPACE>> \o <<102, 117, 108, 108>> ELSE <<>>)

create_get_servers_ext(name, protocol_version, full, empty) ==
    PREFIX \o B_getserversExt \o <<SPACE>> \o name \o <<SPACE>> \o protocol_version
    \o (IF full THEN <<SPACE>> \o <<101, 109, 112, 116, 121>> ELSE <<>>)
    \o (IF empty THEN <<SPACE>> \o <<102, 117, 108, 108>> ELSE <<>>)

\* ------------------------------------------------------------------------
\* Inputs of the discovery client
\* ------------------------------------------------------------------------
B_Warfork == <<87, 97, 114, 102, 111, 114, 107>>
B_26 == <<50, 54>>
B_garbage == <<103, 97, 114, 98, 97, 103, 101, 33>>

\* socket addresses as the peers of a UdpSocket: [ip, port]
MasterAddr == [ip |-> "master", port |-> 27950]
OtherHost == [ip |-> "other", port |-> 27950]

\* wire entries: 192.0.2.1:27960, 10.0.0.2:80 and [2001:db8::1]:27960
E_A1 == <<92, 192, 0, 2, 1, 109, 56>>
E_A2 == <<92, 10, 0, 0, 2, 0, 80>>
E_A6 == <<47, 32, 1, 13, 184, 0, 0, 0, 0, 0, 0, 0, 0, 0, 0, 0, 1, 109, 56>>

HdrV4 == OOB \o B_getserversResponse
HdrExt == OOB \o B_getserversExtResponse

\* the requests a caller makes: a long one and a short one
MasterRequestsV4 ==
    { [game_name |-> Some(B_Warfork), protocol_version |-> B_26,
       filter |-> [empty |-> TRUE, full |-> FALSE, gametype |-> None]],
      [game_name |-> None, protocol_version |-> B_26,
       filter |-> [empty |-> FALSE, full |-> FALSE, gametype |-> None]] }
MasterRequestsExt ==
    { [game_name |-> Some(B_Warfork), protocol_version |-> B_26,
       filter |-> [empty |-> TRUE, full |-> FALSE, gametype |-> None,
                   ipv4 |-> TRUE, ipv6 |-> FALSE]] }
MasterRequests(ext) == IF ext THEN MasterRequestsExt ELSE MasterRequestsV4

\* datagrams the network may hand to the discovery socket
BadDatagrams ==
    { <<>>,                                  \* zero-length datagram
      <<255, 255, 255>>,                     \* shorter than the marker window
      B_garbage,                             \* undecodable, no terminal bytes
      <<120>> \o EOT }                       \* undecodable, ends in the terminal bytes
BigDatagram == [k \in 1..BigLen |-> 120]         \* large and undecodable
MasterDatagramsV4 ==
    BadDatagrams \cup { HdrV4 \o E_A1, HdrV4 \o E_A2 \o EOT, BigDatagram }
MasterDatagramsExt ==
    { B_garbage, HdrExt \o E_A1, HdrExt \o E_A6 \o E_A2 \o EOT }
MasterDatagrams(ext) == IF ext THEN MasterDatagramsExt ELSE MasterDatagramsV4

\* ------------------------------------------------------------------------
\* client.rs: Master (discovery query)
\* ------------------------------------------------------------------------
VARIABLES
    m_pc,        \* "idle", "recv" (inside the select! loop), "done", "panicked"
    m_ext,       \* the running call is get_servers_ext
    m_timeout,   \* the running call's timeout argument
    m_calls,     \* calls started on this client
    m_send_buf,  \* Master.send_buf contents
    m_recv_buf,  \* Master.recv_buf contents
    m_recv_pos,  \* Master.recv_buf cursor position
    m_writes,    \* the local Vec `writes`
    m_sent,      \* datagrams handed to send_to by the running call: [to, data]
    m_received,  \* datagrams recv has returned to the running call, in order
    m_recv_off,  \* the recv branch of the current select! is disabled
    m_timer,     \* ticks since the current sleep(timeout) was created
    m_elapsed,   \* ticks since the request was sent
    m_end,       \* how the loop was left: "none", "eot", "timeout"
    m_result,    \* the value returned by the call
    m_req,       \* the running call's game name, protocol version and filter
    m_from       \* the source of each datagram in m_received, in order

m_vars == <<m_pc, m_ext, m_timeout, m_calls, m_send_buf, m_recv_buf, m_recv_pos,
            m_writes, m_sent, m_received, m_recv_off, m_timer, m_elapsed, m_end,
            m_result, m_req, m_from>>

\* client.rs: Game, the state of the per-server client
VARIABLES
    g_pc,        \* "idle", "recv" (inside the select! loop), "done", "panicked"
    g_op,        \* "info" or "status": the running call
    g_timeout,   \* the running call's timeout argument
    g_calls,     \* calls started on this client
    g_send_buf,  \* Game.send_buf contents
    g_recv_buf,  \* Game.recv_buf contents
    g_recv_pos,  \* Game.recv_buf cursor position
    g_sent,      \* datagrams handed to send_to by the running call: [to, data]
    g_received,  \* what recv_from has returned to the running call, in order
    g_recv_off,  \* the recv_from branch of the current select! is disabled
    g_timer,     \* ticks since the current sleep(timeout) was created
    g_elapsed,   \* ticks since the request was sent
    g_decoded,   \* the bytes handed to the decoder, <<>> before that
    g_result,    \* the value returned by the call
    g_challenge, \* the running call's challenge argument
    g_asked      \* the requests this socket has sent so far: [op, challenge]

g_vars == <<g_pc, g_op, g_timeout, g_calls, g_send_buf, g_recv_buf, g_recv_pos,
            g_sent, g_received, g_recv_off, g_timer, g_elapsed, g_decoded, g_result,
            g_challenge, g_asked>>

\* examples/warfork.rs: the state of the fan-out over the discovered servers
VARIABLES
    f_pc,        \* "idle", "run" (inside collect), "done", "panicked"
    f_addrs,     \* server_addresses, the list the fan-out was started with
    f_net,       \* the network of this run: "open" or "quiet"
    f_silent,    \* in a quiet network, the servers that never respond
    f_bind_fails,\* positions in server_addresses whose UdpSocket::bind fails
    f_next,      \* entries of server_addresses the stream has handed out
    f_flight,    \* the futures held by buffer_unordered: a bag of [addr, at]
    f_sent,      \* datagrams handed to send_to: a bag of [to, data]
    f_items      \* the items collected so far: a bag of Option values

f_vars == <<f_pc, f_addrs, f_net, f_silent, f_bind_fails, f_next, f_flight, f_sent,
            f_items>>

\* the decoders of the *_commands.rs modules applied to one byte string
VARIABLES
    d_in,        \* the byte string handed to the decoder
    d_fn,        \* the decoder applied, "none" before that
    d_out        \* what the decoder returned

d_vars == <<d_in, d_fn, d_out>>

\* the request writers of the *_commands.rs modules applied to one call
VARIABLES
    w_call,      \* the call: the writer's name and its arguments
    w_out        \* what the writer put into its writer and what it returned

w_vars == <<w_call, w_out>>

NoResult == [kind |-> "none"]
NoRequest == [fn |-> "none"]

\* writes.into_iter().scan(0, ..) from element n on: the slices at the
\* cumulative offsets, or a panic when a range passes the end of the buffer
RECURSIVE scan_slices(_, _, _, _)
scan_slices(buf, writes, n, pos) ==
    IF n > Len(writes) THEN [panic |-> FALSE, slices |-> <<>>]
    ELSE IF pos + writes[n] > MAX_PACKET_LEN
         THEN [panic |-> TRUE, slices |-> <<>>]
         ELSE Only({ Only({ [panic |-> r.panic,
                             slices |-> <<BufSlice(buf, pos, end)>> \o r.slices]
                            : r \in {scan_slices(buf, writes, n + 1, end)} })
                     : end \in {pos + writes[n]} })

\* .map(parse).filter_map(Result::ok).fold(.., extend_from_slice), from
\* slice n on
RECURSIVE fold_addresses(_, _, _)
fold_addresses(ext, slices, n) ==
    IF n > Len(slices) THEN <<>>
    ELSE Only({ (IF r.ok THEN r.addresses ELSE <<>>) \o fold_addresses(ext, slices, n + 1)
                : r \in {DiscoveryParse(ext, slices[n])} })

\* the statements after the loop: the call's outcome
collect_result(ext, buf, writes) ==
    Only({ IF s.panic THEN [kind |-> "panic"]
           ELSE [kind |-> "Ok", addresses |-> fold_addresses(ext, s.slices, 1),
                 datagram_info |-> "Collected"]
           : s \in {scan_slices(buf, writes, 1, 0)} })

\* the terminal-marker test of the receive arm; end_pos - 7 underflows (and
\* the range is then rejected) when fewer than 7 bytes precede end_pos
has_eot(buf, pos, written) ==
    LET end_pos == pos + written
    IN IF end_pos < 7 \/ end_pos > MAX_PACKET_LEN THEN "panic"
       ELSE IF BufSlice(buf, end_pos - 7, end_pos) = EOT THEN "yes" ELSE "no"

M_write_request(ext, req) ==
    IF ext THEN write_get_servers_ext(req.game_name, req.protocol_version, req.filter)
    ELSE write_get_servers(req.game_name, req.protocol_version, req.filter)

\* leave the loop and run the statements behind it
M_finish(how, buf, writes) ==
    \E r \in {collect_result(m_ext, buf, writes)} :
       /\ m_end' = how
       /\ m_pc' = IF r.kind = "panic" THEN "panicked" ELSE "done"
       /\ m_result' = IF r.kind = "panic" THEN NoResult ELSE r

\* get_servers / get_servers_ext up to the first select!: encode, send_to
\* succeeds, reset the receive cursor.  A behaviour uses one of the two
\* clients: they share no state, so their interleavings add nothing.
M_get_servers(ext, req, timeout) ==
    /\ m_pc \in {"idle", "done"}
    /\ m_calls < MaxCalls
    /\ g_calls = 0
    /\ \E w \in {M_write_request(ext, req)} :
         \E buf \in {BufWrite(m_send_buf, 0, w.bytes)} :
            /\ m_send_buf' = buf
            /\ m_sent' = <<[to |-> MasterAddr, data |-> BufSlice(buf, 0, w.written)]>>
    /\ m_calls' = m_calls + 1
    /\ m_ext' = ext
    /\ m_req' = req
    /\ m_from' = <<>>
    /\ m_timeout' = timeout
    /\ m_recv_pos' = 0
    /\ m_writes' = <<>>
    /\ m_received' = <<>>
    /\ m_recv_off' = FALSE
    /\ m_timer' = 0
    /\ m_elapsed' = 0
    /\ m_end' = "none"
    /\ m_result' = NoResult
    /\ m_pc' = "recv"
    /\ UNCHANGED m_recv_buf
    /\ UNCHANGED <<g_vars, f_vars, d_vars, w_vars>>

\* the same call when send_to fails: `?` returns ClientError::Io
M_send_error(ext, req, timeout) ==
    /\ m_pc \in {"idle", "done"}
    /\ m_calls < MaxCalls
    /\ g_calls = 0
    /\ \E w \in {M_write_request(ext, req)} :
         m_send_buf' = BufWrite(m_send_buf, 0, w.bytes)
    /\ m_sent' = <<>>
    /\ m_calls' = m_calls + 1
    /\ m_ext' = ext
    /\ m_req' = req
    /\ m_from' = <<>>
    /\ m_timeout' = timeout
    /\ m_writes' = <<>>
    /\ m_received' = <<>>
    /\ m_recv_off' = FALSE
    /\ m_timer' = 0
    /\ m_elapsed' = 0
    /\ m_end' = "none"
    /\ m_result' = [kind |-> "Io"]
    /\ m_pc' = "done"
    /\ UNCHANGED <<m_recv_buf, m_recv_pos>>
    /\ UNCHANGED <<g_vars, f_vars, d_vars, w_vars>>

\* the arm `Ok(written) = self.socket.recv(self.recv_buf.get_mut())`:
\* the datagram lands at the start of the Vec, whatever the cursor says
M_recv(d, src) ==
    /\ m_pc = "recv"
    \* recv returns the datagram without its source, which is not looked at
    /\ m_from' = Append(m_from, src)
    /\ ~m_recv_off
    /\ Len(m_received) < MaxRecv
    /\ d \in MasterDatagrams(m_ext)
    /\ \E written \in {Min(Len(d), MAX_PACKET_LEN)} :
       \E buf \in {Only({BufWrite(m_recv_buf, 0, data) : data \in {Take(d, written)}})} :
       \E writes \in {Append(m_writes, written)} :
       \E e \in {has_eot(buf, m_recv_pos, written)} :
          /\ m_recv_buf' = buf
          /\ m_writes' = writes
          /\ m_received' = Append(m_received, d)
          /\ IF e = "panic"
             THEN /\ m_pc' = "panicked"
                  /\ UNCHANGED <<m_end, m_result, m_timer>>
             ELSE IF e = "yes"
             THEN /\ M_finish("eot", buf, writes)
                  /\ UNCHANGED m_timer
             ELSE \* next iteration: a new sleep(timeout) is created
                  /\ m_timer' = 0
                  /\ UNCHANGED <<m_pc, m_end, m_result>>
    /\ UNCHANGED <<m_ext, m_timeout, m_calls, m_send_buf, m_recv_pos, m_sent,
                   m_recv_off, m_elapsed, m_req>>
    /\ UNCHANGED <<g_vars, f_vars, d_vars, w_vars>>

\* recv completes with Err: the pattern Ok(written) does not match, select!
\* disables the branch and goes on waiting for the sleep
M_recv_error ==
    /\ m_pc = "recv"
    /\ ~m_recv_off
    /\ m_recv_off' = TRUE
    /\ UNCHANGED <<m_pc, m_ext, m_timeout, m_calls, m_send_buf, m_recv_buf,
                   m_recv_pos, m_writes, m_sent, m_received, m_timer, m_elapsed,
                   m_end, m_result, m_req, m_from>>
    /\ UNCHANGED <<g_vars, f_vars, d_vars, w_vars>>

\* the arm `_ = tokio::time::sleep(timeout)`: break
M_timeout ==
    /\ m_pc = "recv"
    /\ m_timer >= m_timeout
    /\ M_finish("timeout", m_recv_buf, m_writes)
    /\ UNCHANGED <<m_ext, m_timeout, m_calls, m_send_buf, m_recv_buf, m_recv_pos,
                   m_writes, m_sent, m_received, m_recv_off, m_timer, m_elapsed, m_req, m_from>>
    /\ UNCHANGED <<g_vars, f_vars, d_vars, w_vars>>

\* one tick passes while the call waits in select!; a sleep that is due fires
\* before more time passes
M_tick ==
    /\ m_pc = "recv"
    /\ m_timer < m_timeout
    /\ m_timer' = m_timer + 1
    /\ m_elapsed' = m_elapsed + 1
    /\ UNCHANGED <<m_pc, m_ext, m_timeout, m_calls, m_send_buf, m_recv_buf,
                   m_recv_pos, m_writes, m_sent, m_received, m_recv_off, m_end,
                   m_result, m_req, m_from>>
    /\ UNCHANGED <<g_vars, f_vars, d_vars, w_vars>>

\* Master::with_socket
MasterInit ==
    /\ m_pc = "idle"
    /\ m_req = NoRequest
    /\ m_from = <<>>
    /\ m_ext = FALSE
    /\ m_timeout = 1
    /\ m_calls = 0
    /\ m_send_buf = <<>>
    /\ m_recv_buf = <<>>
    /\ m_recv_pos = 0
    /\ m_writes = <<>>
    /\ m_sent = <<>>
    /\ m_received = <<>>
    /\ m_recv_off = FALSE
    /\ m_timer = 0
    /\ m_elapsed = 0
    /\ m_end = "none"
    /\ m_result = NoResult

MasterNext ==
    \/ \E ext \in BOOLEAN, timeout \in 1..MaxTimeout :
         \E req \in MasterRequests(ext) : M_get_servers(ext, req, timeout)
    \/ \E ext \in BOOLEAN, timeout \in 1..MaxTimeout :
         \E req \in MasterRequests(ext) : M_send_error(ext, req, timeout)
    \/ \E d \in MasterDatagramsV4 \cup MasterDatagramsExt : M_recv(d, MasterAddr)
    \/ M_recv_error
    \/ M_timeout
    \/ M_tick

\* the discovery client on a network where any host can send a datagram to
\* the client's socket
MasterOpenNext ==
    \/ \E ext \in BOOLEAN, timeout \in 1..MaxTimeout :
         \E req \in MasterRequests(ext) : M_get_servers(ext, req, timeout)
    \/ \E ext \in BOOLEAN, timeout \in 1..MaxTimeout :
         \E req \in MasterRequests(ext) : M_send_error(ext, req, timeout)
    \/ \E d \in MasterDatagramsV4 \cup MasterDatagramsExt, src \in {MasterAddr, OtherHost} :
         M_recv(d, src)
    \/ M_recv_error
    \/ M_timeout
    \/ M_tick

\* ------------------------------------------------------------------------
\* client.rs: Game (per-server info / status query)
\* ------------------------------------------------------------------------
GameAddr == [ip |-> "game", port |-> 44400]
GameOtherPort == [ip |-> "game", port |-> 44401]

B_1234 == <<49, 50, 51, 52>>
B_5678 == <<53, 54, 55, 56>>
B_challenge == <<99, 104, 97, 108, 108, 101, 110, 103, 101>>
\* challenges a caller passes: a valid one and one holding '/'
Challenges == { B_1234, <<97, 47, 98>> }
\* the challenges of a caller that uses a new one for each call
FreshChallenges == { B_1234, B_5678 }

B_kv == <<92, 97, 92, 98>>
InfoOk == OOB \o B_infoResponse \o B_kv
\* status response with the player line `1 2 "x" 3`
StatusOk == OOB \o B_statusResponse \o B_kv \o <<NEWLINE>>
            \o <<49, 32, 50, 32, 34, 120, 34, 32, 51, 10>>
\* status response with the player line `99999999999 2 "x" 3`
StatusHuge == OOB \o B_statusResponse \o B_kv \o <<NEWLINE>>
              \o <<57, 57, 57, 57, 57, 57, 57, 57, 57, 57, 57, 32, 50, 32, 34, 120, 34, 32, 51, 10>>

\* what recv_from may return: replies and junk from the target, and
\* well-formed replies from another port of the target and from another host
GameDatagrams ==
    { [src |-> GameAddr, data |-> d] : d \in {InfoOk, StatusOk, StatusHuge, B_garbage} }
    \cup { [src |-> GameOtherPort, data |-> InfoOk], [src |-> OtherHost, data |-> StatusOk] }

\* the target's reply to a request: the infostring echoes the challenge
\* (key `challenge`); a status reply carries the player line `1 2 "x" 3`
GameReply(op, challenge) ==
    IF op = "info"
    THEN OOB \o B_infoResponse \o <<BACKSLASH>> \o B_challenge \o <<BACKSLASH>> \o challenge
    ELSE OOB \o B_statusResponse \o <<BACKSLASH>> \o B_challenge \o <<BACKSLASH>> \o challenge
         \o <<NEWLINE>> \o <<49, 32, 50, 32, 34, 120, 34, 32, 51, 10>>
\* the replies that can be on their way to this socket: one to each request
\* it has sent, of this call or of an earlier one
GameReplies(asked) ==
    { [src |-> GameAddr, data |-> GameReply(a.op, a.challenge)] : a \in asked }

\* the requests a caller can make this socket send
GameRequests == [op : {"info", "status"}, challenge : FreshChallenges]

\* a source test that compares the IP address and ignores the port
source_accepted_ip_only(socket, addr) == socket.ip = addr.ip

\* the test `socket != self.addr` of the receive arm, as "is accepted"
source_accepted(socket, addr) == socket = addr

G_write_request(op, challenge) ==
    IF op = "info" THEN write_get_info(challenge) ELSE write_get_status(challenge)

G_parse(op, bytes) ==
    IF op = "info" THEN InfoResponse_parse(bytes) ELSE StatusResponse_parse(bytes)

\* get_info / get_status up to the first select!: encode, send_to succeeds
G_query(op, challenge, timeout) ==
    /\ g_pc \in {"idle", "done"}
    /\ g_calls < MaxCalls
    /\ m_calls = 0
    /\ g_calls' = g_calls + 1
    /\ g_op' = op
    /\ g_timeout' = timeout
    /\ g_received' = <<>>
    /\ g_recv_off' = FALSE
    /\ g_timer' = 0
    /\ g_elapsed' = 0
    /\ g_decoded' = <<>>
    /\ g_challenge' = challenge
    /\ \E w \in {G_write_request(op, challenge)} :
          IF w.err # "none"
          THEN /\ g_result' = [kind |-> IF op = "info" THEN "WriteGetInfoError"
                                        ELSE "WriteGetStatusError",
                               err |-> w.err]
               /\ g_pc' = "done"
               /\ g_sent' = <<>>
               \* what the writer wrote before it failed is in send_buf
               /\ g_send_buf' = BufWrite(g_send_buf, 0, w.bytes)
               /\ UNCHANGED <<g_recv_pos, g_asked>>
          ELSE \E buf \in {BufWrite(g_send_buf, 0, w.bytes)} :
                  /\ g_send_buf' = buf
                  /\ g_sent' = <<[to |-> GameAddr, data |-> BufSlice(buf, 0, w.written)]>>
                  /\ g_asked' = g_asked \cup {[op |-> op, challenge |-> challenge]}
                  /\ g_result' = NoResult
                  /\ g_pc' = "recv"
                  \* the recv_from arm starts with recv_buf.set_position(0)
                  /\ g_recv_pos' = 0
    /\ UNCHANGED g_recv_buf
    /\ UNCHANGED <<m_vars, f_vars, d_vars, w_vars>>

\* the same call when send_to fails: `?` returns ClientError::Io
G_send_error(op, challenge, timeout) ==
    /\ g_pc \in {"idle", "done"}
    /\ g_calls < MaxCalls
    /\ m_calls = 0
    /\ \E w \in {G_write_request(op, challenge)} :
          /\ w.err = "none"
          /\ g_send_buf' = BufWrite(g_send_buf, 0, w.bytes)
    /\ g_calls' = g_calls + 1
    /\ g_op' = op
    /\ g_timeout' = timeout
    /\ g_received' = <<>>
    /\ g_recv_off' = FALSE
    /\ g_timer' = 0
    /\ g_elapsed' = 0
    /\ g_decoded' = <<>>
    /\ g_sent' = <<>>
    /\ g_result' = [kind |-> "Io"]
    /\ g_pc' = "done"
    /\ g_challenge' = challenge
    /\ UNCHANGED <<g_recv_buf, g_recv_pos, g_asked>>
    /\ UNCHANGED <<m_vars, f_vars, d_vars, w_vars>>

\* the arm `Ok((written, socket)) = recv_from(..)`: a wrong source continues
\* the loop (with a new sleep), the target's datagram is decoded and returned
G_recv(m) ==
    /\ g_pc = "recv"
    \* a reply exists only to a request this socket has sent
    /\ m \in GameDatagrams \cup GameReplies(g_asked)
    /\ ~g_recv_off
    /\ Len(g_received) < MaxRecv
    /\ \E written \in {Min(Len(m.data), MAX_PACKET_LEN)} :
       \E buf \in {Only({BufWrite(g_recv_buf, 0, data) : data \in {Take(m.data, written)}})} :
          /\ g_recv_buf' = buf
          /\ g_received' = Append(g_received, m)
          /\ IF ~source_accepted(m.src, GameAddr)
             THEN \* continue: a new sleep, and set_position(0) again
                  /\ g_timer' = 0
                  /\ g_recv_pos' = 0
                  /\ UNCHANGED <<g_pc, g_decoded, g_result>>
             ELSE \E bytes \in {BufSlice(buf, 0, written)} :
                  \E r \in {G_parse(g_op, bytes)} :
                     /\ g_decoded' = bytes
                     /\ g_recv_pos' = written
                     /\ g_pc' = IF r.kind = "panic" THEN "panicked" ELSE "done"
                     /\ g_result' = IF r.kind = "panic" THEN NoResult ELSE r
                     /\ UNCHANGED g_timer
    /\ UNCHANGED <<g_op, g_timeout, g_calls, g_send_buf, g_sent, g_recv_off, g_elapsed,
                   g_challenge, g_asked>>
    /\ UNCHANGED <<m_vars, f_vars, d_vars, w_vars>>

\* recv_from completes with Err: the pattern does not match, select! disables
\* the branch and goes on waiting for the sleep
G_recv_error ==
    /\ g_pc = "recv"
    /\ ~g_recv_off
    /\ g_recv_off' = TRUE
    /\ UNCHANGED <<g_pc, g_op, g_timeout, g_calls, g_send_buf, g_recv_buf, g_recv_pos, g_sent,
                   g_received, g_timer, g_elapsed, g_decoded, g_result,
                   g_challenge, g_asked>>
    /\ UNCHANGED <<m_vars, f_vars, d_vars, w_vars>>

\* a timeout arm that sends the request once more before it gives up
G_timeout_retry ==
    /\ g_pc = "recv"
    /\ g_timer >= g_timeout
    /\ IF Len(g_sent) < 2
       THEN /\ g_sent' = Append(g_sent, g_sent[1])
            /\ g_timer' = 0
            /\ UNCHANGED <<g_pc, g_result>>
       ELSE /\ g_pc' = "done"
            /\ g_result' = [kind |-> "Timeout"]
            /\ UNCHANGED <<g_sent, g_timer>>
    /\ UNCHANGED <<g_op, g_timeout, g_calls, g_send_buf, g_recv_buf, g_recv_pos,
                   g_received, g_recv_off, g_elapsed, g_decoded, g_challenge, g_asked>>
    /\ UNCHANGED <<m_vars, f_vars, d_vars, w_vars>>

\* the arm `_ = tokio::time::sleep(timeout)`: return Err(ClientError::Timeout)
G_timeout ==
    /\ g_pc = "recv"
    /\ g_timer >= g_timeout
    /\ g_pc' = "done"
    /\ g_result' = [kind |-> "Timeout"]
    /\ UNCHANGED <<g_op, g_timeout, g_calls, g_send_buf, g_recv_buf, g_recv_pos,
                   g_sent, g_received, g_recv_off, g_timer, g_elapsed, g_decoded,
                   g_challenge, g_asked>>
    /\ UNCHANGED <<m_vars, f_vars, d_vars, w_vars>>

\* one tick passes while the call waits in select!
G_tick ==
    /\ g_pc = "recv"
    /\ g_timer < g_timeout
    /\ g_timer' = g_timer + 1
    /\ g_elapsed' = g_elapsed + 1
    /\ UNCHANGED <<g_pc, g_op, g_timeout, g_calls, g_send_buf, g_recv_buf,
                   g_recv_pos, g_sent, g_received, g_recv_off, g_decoded, g_result,
                   g_challenge, g_asked>>
    /\ UNCHANGED <<m_vars, f_vars, d_vars, w_vars>>

\* Game::with_socket
GameInit ==
    /\ g_pc = "idle"
    /\ g_op = "info"
    /\ g_timeout = 1
    /\ g_calls = 0
    /\ g_send_buf = <<>>
    /\ g_recv_buf = <<>>
    /\ g_recv_pos = 0
    /\ g_sent = <<>>
    /\ g_received = <<>>
    /\ g_recv_off = FALSE
    /\ g_timer = 0
    /\ g_elapsed = 0
    /\ g_decoded = <<>>
    /\ g_result = NoResult
    /\ g_challenge = <<>>
    /\ g_asked = {}

GameNext ==
    \/ \E op \in {"info", "status"}, c \in Challenges, timeout \in 1..MaxTimeout :
         G_query(op, c, timeout)
    \/ \E op \in {"info", "status"}, c \in Challenges, timeout \in 1..MaxTimeout :
         G_send_error(op, c, timeout)
    \/ \E m \in GameDatagrams : G_recv(m)
    \/ G_recv_error
    \/ G_timeout
    \/ G_tick

\* the per-server client used for several calls, each with its own challenge,
\* on a network where the target's reply to a request may arrive late
GameReuseNext ==
    \/ \E op \in {"info", "status"}, c \in FreshChallenges, timeout \in 1..MaxTimeout :
         G_query(op, c, timeout)
    \/ \E op \in {"info", "status"}, c \in FreshChallenges, timeout \in 1..MaxTimeout :
         G_send_error(op, c, timeout)
    \/ \E m \in GameDatagrams \cup GameReplies(GameRequests) : G_recv(m)
    \/ G_recv_error
    \/ G_timeout
    \/ G_tick

\* ------------------------------------------------------------------------
\* examples/warfork.rs: status queries fanned out over the discovered servers
\* ------------------------------------------------------------------------
\* the argument of buffer_unordered
BUFFER_UNORDERED == 16
\* length of the example's send and receive arrays
EXAMPLE_BUF_LEN == 1024

ServerA == GameAddr
ServerB == [ip |-> "game2", port |-> 44400]

\* a short list holding one address twice, and a list longer than the buffer
ShortList == <<ServerA, ServerB, ServerA>>
LongList == [k \in 1..MaxAddrs |-> IF k = MaxAddrs THEN ServerB ELSE ServerA]

\* the runs: in an open network anything may reach a task's socket and any
\* local call may fail; in a quiet network nothing fails locally, the servers
\* of `silent` never answer and every other server answers its query in time
FanoutRuns ==
    { [addrs |-> ShortList, net |-> "open", silent |-> {}, bind_fails |-> b]
      : b \in {{}, {2}} }
    \cup { [addrs |-> l, net |-> "quiet", silent |-> s, bind_fails |-> {}]
           : l \in {<<>>, ShortList, LongList}, s \in SUBSET {ServerA, ServerB} }

\* what recv may return on the socket of the task querying addr
FanoutDatagrams(addr) ==
    { [src |-> addr, data |-> d] : d \in {StatusOk, StatusHuge, B_garbage} }
    \cup { [src |-> OtherHost, data |-> StatusOk] }

\* GetStatus::new(Challenge::new(b"1234")).write_all_to(send_buf)
GetStatus_write_all_to == write_get_status(B_1234).bytes

\* the items a task returns; `why` is the line it prints, `from` the source
\* of the decoded datagram, which recv does not report
NoneItem(why) == [some |-> FALSE, why |-> why]
SomeItem(addr, status, from) ==
    [some |-> TRUE, addr |-> addr, status |-> status, from |-> from]

\* an admission test that lets one future too many into the buffer
slot_free_off_by_one(in_progress) == in_progress <= BUFFER_UNORDERED

\* buffer_unordered pulls the next future only while fewer than its limit
\* are in progress
slot_free(in_progress) == in_progress < BUFFER_UNORDERED

\* one poll of buffer_unordered: futures are pulled from the stream while a
\* slot is free; each runs to its first suspension, the send_to after a
\* successful bind, or returns None at once when bind fails
RECURSIVE buffer_fill(_, _, _, _, _)
buffer_fill(addrs, fails, next, flight, items) ==
    IF ~slot_free(BagCardinality(flight)) \/ next >= Len(addrs)
    THEN [next |-> next, flight |-> flight, items |-> items]
    ELSE IF (next + 1) \in fails
    THEN Only({ buffer_fill(addrs, fails, next + 1, flight, it)
                : it \in {items (+) SetToBag({NoneItem("bind")})} })
    ELSE Only({ buffer_fill(addrs, fails, next + 1, fl, items)
                : fl \in {flight (+) SetToBag({[addr |-> addrs[next + 1],
                                                at |-> "send"]})} })

\* collect returns once the stream and the buffer are both exhausted
collect_pc(addrs, r) ==
    IF r.next = Len(addrs) /\ BagCardinality(r.flight) = 0 THEN "done" ELSE "run"

\* main reaches the fan-out with server_addresses; the first poll of collect
F_start(run) ==
    /\ f_pc = "idle"
    /\ f_addrs' = run.addrs
    /\ f_net' = run.net
    /\ f_silent' = run.silent
    /\ f_bind_fails' = run.bind_fails
    /\ f_sent' = EmptyBag
    /\ \E r \in {buffer_fill(run.addrs, run.bind_fails, 0, EmptyBag, EmptyBag)} :
         /\ f_next' = r.next
         /\ f_flight' = r.flight
         /\ f_items' = r.items
         /\ f_pc' = collect_pc(run.addrs, r)
    /\ UNCHANGED <<m_vars, g_vars, d_vars, w_vars>>

\* the future e returns item: collect stores it and polls the buffer again
F_collect(e, item) ==
    \E r \in {buffer_fill(f_addrs, f_bind_fails, f_next,
                          f_flight (-) SetToBag({e}),
                          f_items (+) SetToBag({item}))} :
        /\ f_next' = r.next
        /\ f_flight' = r.flight
        /\ f_items' = r.items
        /\ f_pc' = collect_pc(f_addrs, r)

\* send_to succeeds; the task goes on to its select!
F_send(e) ==
    /\ f_pc = "run"
    /\ BagIn(e, f_flight)
    /\ e.at = "send"
    /\ f_sent' = f_sent (+) SetToBag({[to |-> e.addr, data |-> GetStatus_write_all_to]})
    /\ f_flight' = (f_flight (-) SetToBag({e}))
                   (+) SetToBag({[addr |-> e.addr, at |-> "recv"]})
    /\ UNCHANGED <<f_pc, f_addrs, f_net, f_silent, f_bind_fails, f_next, f_items>>
    /\ UNCHANGED <<m_vars, g_vars, d_vars, w_vars>>

\* send_to fails: "Udp send error", None
F_send_error(e) ==
    /\ f_pc = "run"
    /\ f_net = "open"
    /\ BagIn(e, f_flight)
    /\ e.at = "send"
    /\ F_collect(e, NoneItem("send"))
    /\ UNCHANGED <<f_addrs, f_net, f_silent, f_bind_fails, f_sent>>
    /\ UNCHANGED <<m_vars, g_vars, d_vars, w_vars>>

\* the datagrams the network of this run delivers to the task querying addr
delivered(addr) ==
    IF f_net = "open" THEN FanoutDatagrams(addr)
    ELSE IF addr \in f_silent THEN {}
    ELSE {[src |-> addr, data |-> StatusOk]}

\* the recv arm of the task's select! wins with datagram m, which is cut to
\* the receive array and decoded
F_recv(e, m) ==
    /\ f_pc = "run"
    /\ BagIn(e, f_flight)
    /\ e.at = "recv"
    /\ m \in delivered(e.addr)
    /\ \E status \in {StatusResponse_parse(
                        SubSeq(m.data, 1, Min(Len(m.data), EXAMPLE_BUF_LEN)))} :
         IF status.kind = "panic"
         THEN /\ f_pc' = "panicked"
              /\ UNCHANGED <<f_next, f_flight, f_items>>
         ELSE F_collect(e, IF status.kind = "Ok"
                           THEN SomeItem(e.addr, status, m.src)
                           ELSE NoneItem("decode"))
    /\ UNCHANGED <<f_addrs, f_net, f_silent, f_bind_fails, f_sent>>
    /\ UNCHANGED <<m_vars, g_vars, d_vars, w_vars>>

\* the recv arm wins with an error: "Udp recv error", None
F_recv_error(e) ==
    /\ f_pc = "run"
    /\ f_net = "open"
    /\ BagIn(e, f_flight)
    /\ e.at = "recv"
    /\ F_collect(e, NoneItem("recv"))
    /\ UNCHANGED <<f_addrs, f_net, f_silent, f_bind_fails, f_sent>>
    /\ UNCHANGED <<m_vars, g_vars, d_vars, w_vars>>

\* the sleep arm of the task's select! wins: "Recv timeout error", None
F_timeout(e) ==
    /\ f_pc = "run"
    /\ f_net = "open" \/ e.addr \in f_silent
    /\ BagIn(e, f_flight)
    /\ e.at = "recv"
    /\ F_collect(e, NoneItem("timeout"))
    /\ UNCHANGED <<f_addrs, f_net, f_silent, f_bind_fails, f_sent>>
    /\ UNCHANGED <<m_vars, g_vars, d_vars, w_vars>>

\* the futures a step can be about
Futures == { [addr |-> a, at |-> s] : a \in {ServerA, ServerB}, s \in {"send", "recv"} }

\* main before line 60
FanoutInit ==
    /\ f_pc = "idle"
    /\ f_addrs = <<>>
    /\ f_net = "quiet"
    /\ f_silent = {}
    /\ f_bind_fails = {}
    /\ f_next = 0
    /\ f_flight = EmptyBag
    /\ f_sent = EmptyBag
    /\ f_items = EmptyBag

FanoutNext ==
    \/ \E run \in FanoutRuns : F_start(run)
    \/ \E e \in Futures : F_send(e)
    \/ \E e \in Futures : F_send_error(e)
    \/ \E e \in Futures : \E m \in FanoutDatagrams(e.addr) : F_recv(e, m)
    \/ \E e \in Futures : F_recv_error(e)
    \/ \E e \in Futures : F_timeout(e)

\* ------------------------------------------------------------------------
\* the decoders applied to one byte string
\* ------------------------------------------------------------------------
\* byte strings built from wire entries: entries of a discovery response
Entries(ext) == IF ext THEN {E_A1, E_A6, EOT} ELSE {E_A1, E_A2, EOT}
EntryLists(ext) == UNION { [1..n -> Entries(ext)] : n \in 0..MaxEntries }

\* the concatenation of the byte strings parts[n..]
RECURSIVE Flat(_, _)
Flat(parts, n) == IF n > Len(parts) THEN <<>> ELSE parts[n] \o Flat(parts, n + 1)

Hdr(ext) == IF ext THEN HdrExt ELSE HdrV4

DiscoveryInputs ==
    { Hdr(ext) \o Flat(es, 1) : ext \in BOOLEAN, es \in EntryLists(TRUE) \cup EntryLists(FALSE) }

\* byte strings without the marker: short ones, and well-formed messages
\* with the marker cut, shifted or changed in one byte
WellFormedMessages == { HdrV4 \o E_A1 \o EOT, HdrExt \o E_A6, InfoOk, StatusOk }
NoMarkerInputs ==
    { SubSeq(OOB, 1, n) : n \in 0..3 }
    \cup { B_garbage }
    \cup { Drop(msg, n) : msg \in WellFormedMessages, n \in {1, 4} }
    \cup { [msg EXCEPT ![k] = 254] : msg \in WellFormedMessages, k \in 1..4 }

\* key-value runs: \a\b and \sv_hostname\Test Server\gametype\ffa
B_kv2 == <<92, 115, 118, 95, 104, 111, 115, 116, 110, 97, 109, 101, 92, 84, 101,
           115, 116, 32, 83, 101, 114, 118, 101, 114, 92, 103, 97, 109, 101, 116,
           121, 112, 101, 92, 102, 102, 97>>
KvRuns == {B_kv, B_kv2}

\* player lines: `5 23 "Alice" 1`, `-2 88 "Bob" 2`, `99999999999 2 "x" 3`,
\* and the malformed `7 "NoPing" 1` and `- 1 "x" 1`, each with its newline
L_Alice == <<53, 32, 50, 51, 32, 34, 65, 108, 105, 99, 101, 34, 32, 49, 10>>
L_Bob == <<45, 50, 32, 56, 56, 32, 34, 66, 111, 98, 34, 32, 50, 10>>
L_Huge == <<57, 57, 57, 57, 57, 57, 57, 57, 57, 57, 57, 32, 50, 32, 34, 120, 34,
            32, 51, 10>>
L_NoPing == <<55, 32, 34, 78, 111, 80, 105, 110, 103, 34, 32, 49, 10>>
L_MinusOnly == <<45, 32, 49, 32, 34, 120, 34, 32, 49, 10>>
WellFormedLines == {L_Alice, L_Bob, L_Huge}
MalformedLines == {L_NoPing, L_MinusOnly}
LineLists(lines) == UNION { [1..n -> lines] : n \in 0..MaxPlayers }

\* what follows the key-value run of a status response: nothing, bytes that
\* neither continue the run nor start with a newline (`\x`), or a newline
\* and player lines
StatusTails ==
    { <<>>, <<BACKSLASH, 120>> }
    \cup { <<NEWLINE>> \o Flat(ls, 1) : ls \in LineLists(WellFormedLines \cup MalformedLines) }

StatusMsg(kv, tail) == OOB \o B_statusResponse \o kv \o tail
StatusInputs == { StatusMsg(kv, tail) : kv \in KvRuns, tail \in StatusTails }

\* every string of at most MaxKvLen bytes over backslash, newline, a and b
KvAlphabet == {BACKSLASH, NEWLINE, 97, 98}
KvStrings == UNION { [1..n -> KvAlphabet] : n \in 0..MaxKvLen }

\* address entries: every prefix of an IPv4 and of an IPv6 entry, entries
\* followed by more bytes, and entries with another first byte
AddrInputs ==
    { SubSeq(E_A1, 1, n) : n \in 0..Len(E_A1) }
    \cup { SubSeq(E_A6, 1, n) : n \in 0..Len(E_A6) }
    \cup { E_A1 \o <<1, 2>>, E_A2 \o E_A1, E_A6 \o <<1>>, EOT }
    \cup { [e EXCEPT ![1] = t] : e \in {E_A1, E_A6}, t \in {BACKSLASH, SLASH, 120} }

DecodeInputs ==
    DiscoveryInputs \cup NoMarkerInputs \cup WellFormedMessages \cup StatusInputs
    \cup KvStrings \cup KvRuns \cup AddrInputs

D_GetServersResponse ==
    /\ d_fn = "none"
    /\ d_fn' = "GetServersResponse::parse"
    /\ d_out' = GetServersResponse_parse(d_in)
    /\ UNCHANGED <<d_in, m_vars, g_vars, f_vars, w_vars>>

D_GetServersExtResponse ==
    /\ d_fn = "none"
    /\ d_fn' = "GetServersExtResponse::parse"
    /\ d_out' = GetServersExtResponse_parse(d_in)
    /\ UNCHANGED <<d_in, m_vars, g_vars, f_vars, w_vars>>

D_InfoResponse ==
    /\ d_fn = "none"
    /\ d_fn' = "InfoResponse::parse"
    /\ d_out' = InfoResponse_parse(d_in)
    /\ UNCHANGED <<d_in, m_vars, g_vars, f_vars, w_vars>>

D_StatusResponse ==
    /\ d_fn = "none"
    /\ d_fn' = "StatusResponse::parse"
    /\ d_out' = StatusResponse_parse(d_in)
    /\ UNCHANGED <<d_in, m_vars, g_vars, f_vars, w_vars>>

D_socket_addr_v4 ==
    /\ d_fn = "none"
    /\ d_fn' = "socket_addr_v4"
    /\ d_out' = socket_addr_v4(d_in)
    /\ UNCHANGED <<d_in, m_vars, g_vars, f_vars, w_vars>>

D_socket_addr ==
    /\ d_fn = "none"
    /\ d_fn' = "socket_addr"
    /\ d_out' = socket_addr(d_in)
    /\ UNCHANGED <<d_in, m_vars, g_vars, f_vars, w_vars>>

D_key_value_map ==
    /\ d_fn = "none"
    /\ d_fn' = "key_value_map"
    /\ d_out' = key_value_map(d_in)
    /\ UNCHANGED <<d_in, m_vars, g_vars, f_vars, w_vars>>

\* a byte string is chosen
DecodeInit ==
    /\ d_in \in DecodeInputs
    /\ d_fn = "none"
    /\ d_out = NoResult

DecodeNext ==
    \/ D_GetServersResponse
    \/ D_GetServersExtResponse
    \/ D_InfoResponse
    \/ D_StatusResponse
    \/ D_key_value_map
    \/ D_socket_addr_v4
    \/ D_socket_addr

\* the decoders before any input is chosen
DecodeIdle ==
    /\ d_in = <<>>
    /\ d_fn = "none"
    /\ d_out = NoResult

\* ------------------------------------------------------------------------
\* The request writers applied to one call each.  The writer handed to them
\* is a Vec<u8> (or a Cursor over one), whose write_all never fails.
\* ------------------------------------------------------------------------
B_ffa == <<102, 102, 97>>
B_word_empty == <<101, 109, 112, 116, 121>>

EncodeFiltersV4 ==
    [empty : BOOLEAN, full : BOOLEAN,
     gametype : {None, Some(B_ffa), Some(B_26), Some(B_word_empty)}]
EncodeFiltersExt ==
    [empty : BOOLEAN, full : BOOLEAN, gametype : {None, Some(B_ffa)},
     ipv4 : BOOLEAN, ipv6 : BOOLEAN]
EncodeCallsV4 ==
    [fn : {"write_get_servers"},
     game_name : {None, Some(B_Warfork), Some(B_26)},
     protocol_version : {B_26, B_Warfork},
     filter : EncodeFiltersV4]
EncodeCallsExt ==
    [fn : {"write_get_servers_ext"},
     game_name : {Some(B_Warfork), Some(B_26)},
     protocol_version : {B_26, B_Warfork},
     filter : EncodeFiltersExt]

\* challenge bytes on both sides of every edge of the accepted range, the
\* five excluded characters, and bytes that are not ASCII
ChallengeBytes == {0, 9, 10, 31, 32, 33, 34, 35, 37, 47, 59, 65, 92, 126, 127, 128, 255}
EncodeChallenges ==
    { <<>>, B_1234 }
    \cup { <<b>> : b \in ChallengeBytes }
    \cup { <<65, b>> : b \in ChallengeBytes }
    \cup { <<b, 65>> : b \in ChallengeBytes }
EncodeCallsGame ==
    [fn : {"write_get_info", "write_get_status"}, challenge : EncodeChallenges]

B_basewf == <<98, 97, 115, 101, 119, 102>>
EncodeCallsLegacy ==
    [fn : {"create_get_servers", "create_get_servers_ext"},
     name : {B_Warfork, B_basewf}, protocol_version : {B_26},
     full : BOOLEAN, empty : BOOLEAN]

EncodeCalls == EncodeCallsV4 \cup EncodeCallsExt \cup EncodeCallsGame \cup EncodeCallsLegacy

W_write_get_servers ==
    /\ w_out = NoResult
    /\ w_call.fn = "write_get_servers"
    /\ w_out' = write_get_servers(w_call.game_name, w_call.protocol_version,
                                  w_call.filter)
    /\ UNCHANGED <<w_call, m_vars, g_vars, f_vars, d_vars>>

W_write_get_servers_ext ==
    /\ w_out = NoResult
    /\ w_call.fn = "write_get_servers_ext"
    /\ w_out' = write_get_servers_ext(w_call.game_name, w_call.protocol_version,
                                      w_call.filter)
    /\ UNCHANGED <<w_call, m_vars, g_vars, f_vars, d_vars>>

W_write_get_info ==
    /\ w_out = NoResult
    /\ w_call.fn = "write_get_info"
    /\ w_out' = write_get_info(w_call.challenge)
    /\ UNCHANGED <<w_call, m_vars, g_vars, f_vars, d_vars>>

W_write_get_status ==
    /\ w_out = NoResult
    /\ w_call.fn = "write_get_status"
    /\ w_out' = write_get_status(w_call.challenge)
    /\ UNCHANGED <<w_call, m_vars, g_vars, f_vars, d_vars>>

W_create_get_servers ==
    /\ w_out = NoResult
    /\ w_call.fn = "create_get_servers"
    /\ w_out' = [bytes |-> create_get_servers(w_call.name, w_call.protocol_version,
                                              w_call.full, w_call.empty)]
    /\ UNCHANGED <<w_call, m_vars, g_vars, f_vars, d_vars>>

W_create_get_servers_ext ==
    /\ w_out = NoResult
    /\ w_call.fn = "create_get_servers_ext"
    /\ w_out' = [bytes |-> create_get_servers_ext(w_call.name, w_call.protocol_version,
                                                  w_call.full, w_call.empty)]
    /\ UNCHANGED <<w_call, m_vars, g_vars, f_vars, d_vars>>

\* a call is chosen
EncodeInit ==
    /\ w_call \in EncodeCalls
    /\ w_out = NoResult

EncodeNext ==
    \/ W_write_get_servers
    \/ W_write_get_servers_ext
    \/ W_write_get_info
    \/ W_write_get_status
    \/ W_create_get_servers
    \/ W_create_get_servers_ext

\* the writers before any call is chosen
EncodeIdle ==
    /\ w_call = [fn |-> "none"]
    /\ w_out = NoResult

vars == <<m_vars, g_vars, f_vars, d_vars, w_vars>>

Init == MasterInit /\ GameInit /\ FanoutInit /\ DecodeIdle /\ EncodeIdle

\* the discovery client alone
SpecMaster == Init /\ [][MasterNext]_vars

\* the discovery client alone, datagrams arriving from any host
SpecMasterOpen == Init /\ [][MasterOpenNext]_vars

\* the per-server client alone
SpecGame == Init /\ [][GameNext]_vars

\* the per-server client reused with a new challenge for each call
SpecGameReuse == Init /\ [][GameReuseNext]_vars

\* either client
Next == MasterNext \/ GameNext

Spec == Init /\ [][Next]_vars

\* the decoders, each applied to each of the byte strings
InitDecode == MasterInit /\ GameInit /\ FanoutInit /\ DecodeInit /\ EncodeIdle

SpecDecode == InitDecode /\ [][DecodeNext]_vars

\* the request writers, each applied to each of its calls
InitEncode == MasterInit /\ GameInit /\ FanoutInit /\ DecodeIdle /\ EncodeInit

SpecEncode == InitEncode /\ [][EncodeNext]_vars

\* the fan-out of the example: every enabled step is eventually taken, since
\* the runtime polls a woken future and every sleep elapses
SpecFanout == Init /\ [][FanoutNext]_vars /\ WF_vars(FanoutNext)

\* ------------------------------------------------------------------------
\* Properties
\* ------------------------------------------------------------------------
Last(seq) == seq[Len(seq)]

\* the addresses of the datagrams ds[n..] that decode, in order
RECURSIVE DecodedAddresses(_, _, _)
DecodedAddresses(ext, ds, n) ==
    IF n > Len(ds) THEN <<>>
    ELSE Only({ (IF r.ok THEN r.addresses ELSE <<>>) \o DecodedAddresses(ext, ds, n + 1)
                : r \in {DiscoveryParse(ext, ds[n])} })

\* N >= 1 datagrams that all decode, the terminal marker on the last only
WellFormedReply(ext, ds) ==
    /\ Len(ds) >= 1
    /\ \A n \in 1..Len(ds) :
         \E r \in {DiscoveryParse(ext, ds[n])} :
            r.ok /\ (r.kind = "Eot" <=> n = Len(ds))

M_returned == m_pc \in {"done", "panicked"} /\ m_sent # <<>>

\* C1: when the reply was N >= 1 decodable datagrams with the terminal marker
\* on the last only, the call returns Ok with the in-order concatenation of
\* the N address lists.
C1_Reassembly ==
    (M_returned /\ WellFormedReply(m_ext, m_received))
        => /\ m_pc = "done"
           /\ m_result.kind = "Ok"
           /\ m_result.addresses = DecodedAddresses(m_ext, m_received, 1)

\* C2: the call is never still receiving later than `timeout` ticks after the
\* request was sent, whatever arrived in between.
C2_Deadline == m_pc = "recv" => m_elapsed <= m_timeout

NoneFromTarget == \A n \in 1..Len(g_received) : g_received[n].src # GameAddr

\* C3: as long as no datagram from the target has arrived the call is never
\* still receiving after the deadline, and its Timeout is returned exactly
\* `timeout` ticks after the request was sent.
C3_SpoofDeadline ==
    /\ (g_pc = "recv" /\ NoneFromTarget) => g_elapsed <= g_timeout
    /\ (g_pc = "done" /\ g_result.kind = "Timeout" /\ NoneFromTarget)
           => g_elapsed = g_timeout

G_decoded_something ==
    \/ g_pc = "panicked"
    \/ g_pc = "done" /\ g_result.kind \in {"Ok", "ParseResponseError"}

\* C4: the bytes decoded (and the response returned) by get_info / get_status
\* are those of a datagram whose source is exactly the target address, and a
\* datagram of any other source leaves the call receiving (until it times out).
C4_SourceFiltering ==
    /\ G_decoded_something =>
          /\ g_received # <<>>
          /\ Last(g_received).src = GameAddr
          /\ g_decoded = Last(g_received).data
          /\ g_result.kind = "Ok" => g_result = G_parse(g_op, Last(g_received).data)
    /\ (g_received # <<>> /\ Last(g_received).src # GameAddr) =>
          \/ g_pc = "recv" /\ g_decoded = <<>>
          \/ g_pc = "done" /\ g_result.kind = "Timeout"

\* a reply from another port of the target's host was discarded and the
\* target's own reply was then decoded and returned
C4_Witness ==
    /\ g_pc = "done"
    /\ g_result.kind = "Ok"
    /\ Len(g_received) = 2
    /\ g_received[1].src = GameOtherPort

\* C5: a datagram that does not decode, of any length, is dropped and the call
\* keeps receiving: it does not abort the call, does not end it, and the
\* addresses of the decodable datagrams are returned.
C5_BadDatagramsTolerated ==
    /\ m_pc # "panicked"
    /\ (m_received # <<>> /\ ~DiscoveryParse(m_ext, Last(m_received)).ok)
          => (m_pc = "recv" \/ m_end = "timeout")
    /\ (m_pc = "done" /\ m_sent # <<>>)
          => /\ m_result.kind = "Ok"
             /\ m_result.addresses = DecodedAddresses(m_ext, m_received, 1)

\* C6: the loop is left before the timeout exactly when a received datagram
\* decoded as a discovery response with the terminal marker, that datagram
\* being the last one processed.
C6_Completion ==
    /\ m_end = "eot" =>
          \E r \in {DiscoveryParse(m_ext, Last(m_received))} :
             r.ok /\ r.kind = "Eot"
    /\ (\E n \in 1..Len(m_received) :
          \E r \in {DiscoveryParse(m_ext, m_received[n])} :
             r.ok /\ r.kind = "Eot")
          => (m_end = "eot" /\ DiscoveryParse(m_ext, Last(m_received)).ok)

\* C7: when the timeout ends the loop the call returns Ok with the addresses
\* of every datagram decoded so far.
C7_TimeoutIsPartialSuccess ==
    m_end = "timeout"
        => /\ m_pc = "done"
           /\ m_result.kind = "Ok"
           /\ m_result.addresses = DecodedAddresses(m_ext, m_received, 1)

\* C8: a call that is receiving, or has left its receive loop, has handed
\* exactly one request datagram to send_to, addressed to the client's
\* configured address; no call ever sends a second one.
C8_OneRequestPerCall ==
    /\ Len(m_sent) <= 1
    /\ Len(g_sent) <= 1
    /\ (m_pc \in {"recv", "panicked"} \/ m_end # "none")
          => (Len(m_sent) = 1 /\ m_sent[1].to = MasterAddr)
    /\ (g_pc \in {"recv", "panicked"} \/ g_received # <<>>
        \/ (g_pc = "done" /\ g_result.kind = "Timeout"))
          => (Len(g_sent) = 1 /\ g_sent[1].to = GameAddr)

\* a per-server call timed out after a wrong-source datagram, and a discovery
\* call can equally be inspected after a datagram that does not decode
C8_Witness ==
    \/ /\ g_pc = "done" /\ g_result.kind = "Timeout"
       /\ g_received # <<>> /\ Len(g_sent) = 1
    \/ /\ m_pc = "done" /\ m_end = "timeout"
       /\ m_received # <<>> /\ Len(m_sent) = 1

FirstFromTarget(n) ==
    /\ n \in 1..Len(g_received)
    /\ g_received[n].src = GameAddr
    /\ \A j \in 1..(n - 1) : g_received[j].src # GameAddr

\* C9: the first datagram from the target ends the call: nothing is received
\* after it, and the call returns the decoded response if it decodes and
\* ParseResponseError if it does not.
C9_FirstReplyDecides ==
    \A n \in 1..Len(g_received) :
        FirstFromTarget(n) =>
            /\ n = Len(g_received)
            /\ g_pc = "done"
            /\ \E r \in {G_parse(g_op, g_received[n].data)} :
                  IF r.kind = "Ok" THEN g_result = r
                  ELSE g_result.kind = "ParseResponseError"

\* C10: in a per-server call a failed send or receive is reported as Io, an
\* expired deadline as Timeout and a grammar mismatch as ParseResponseError;
\* a call whose receive failed never returns Timeout.
C10_FailureKinds ==
    g_pc = "done" =>
        /\ g_recv_off => g_result.kind = "Io"
        /\ g_result.kind = "Timeout" => (~g_recv_off /\ g_timer >= g_timeout)
        /\ (g_sent = <<>> /\ g_result.kind # "Io")
              => g_result.kind \in {"WriteGetInfoError", "WriteGetStatusError"}

\* fan-out: futures in the buffer, datagrams sent to a, entries equal to a
\* among the first n of the list, queries that ended before anything was sent
InFlight == BagCardinality(f_flight)
SentTo(a) == CopiesIn([to |-> a, data |-> GetStatus_write_all_to], f_sent)
EntriesOf(a, n) == Cardinality({k \in 1..n : f_addrs[k] = a})
NothingSent == CopiesIn(NoneItem("bind"), f_items) + CopiesIn(NoneItem("send"), f_items)

\* C11: at most 16 queries are in flight; entries wait only while the buffer
\* is full; every entry handed out is in flight or has returned its item;
\* no address is sent more requests than the list has entries for it; when
\* the fan-out returns every entry has been handed out and each one either
\* had its request sent or failed in bind or send_to.
C11_Admission ==
    /\ InFlight <= BUFFER_UNORDERED
    /\ (f_pc = "run" /\ f_next < Len(f_addrs)) => InFlight = BUFFER_UNORDERED
    /\ InFlight + BagCardinality(f_items) = f_next
    /\ \A a \in {ServerA, ServerB} : SentTo(a) <= EntriesOf(a, f_next)
    /\ f_pc = "done" =>
          /\ f_next = Len(f_addrs)
          /\ BagCardinality(f_sent) + NothingSent = Len(f_addrs)

\* a list longer than the buffer has been worked off: its last entry, which
\* had to wait for a slot, was queried, and so was every other entry
C11_Witness ==
    /\ f_pc = "done"
    /\ Len(f_addrs) > BUFFER_UNORDERED
    /\ SentTo(ServerB) = 1
    /\ SentTo(ServerA) = Len(f_addrs) - 1

\* C12: no query's outcome aborts the fan-out; when it returns, every entry
\* of the list has produced its item, and the pairs among the items are
\* decoded responses, at most one per entry of the pair's address.
C12_BestEffort ==
    /\ f_pc # "panicked"
    /\ f_pc = "done" =>
          /\ BagCardinality(f_items) = Len(f_addrs)
          /\ \A it \in BagToSet(f_items) :
                it.some => /\ it.status.kind = "Ok"
                           /\ CopiesIn(it, f_items) <= EntriesOf(it.addr, Len(f_addrs))

\* C13: every pair among the collected items was decoded from a datagram
\* whose source is the pair's address.
C13_Attribution ==
    \A it \in BagToSet(f_items) : it.some => it.from = it.addr

\* the collected items are one pair per entry of a responding server, decoded
\* from its reply, and one None per entry of a silent server
ExactlyResponders ==
    /\ BagCardinality(f_items) = Len(f_addrs)
    /\ \A a \in {ServerA, ServerB} :
          CopiesIn(SomeItem(a, StatusResponse_parse(StatusOk), a), f_items)
             = IF a \in f_silent THEN 0 ELSE EntriesOf(a, Len(f_addrs))
    /\ CopiesIn(NoneItem("timeout"), f_items)
          = Cardinality({k \in 1..Len(f_addrs) : f_addrs[k] \in f_silent})

\* C14: a started fan-out returns, whatever the servers do; when nothing
\* fails locally, every server outside `silent` answers its query and the
\* servers of `silent` never answer, it returns exactly the pairs of the
\* responders.
C14_Terminates ==
    (f_pc = "run") ~> (f_pc = "done" /\ (f_net = "quiet" => ExactlyResponders))

\* what a discovery response made of the entries es is to decode to: the
\* addresses before the first terminal literal, the flag, and as leftover
\* the bytes after that literal
ExpectedDiscovery(es) ==
    Only({ IF at = {}
           THEN [ok |-> TRUE, left |-> <<>>,
                 addresses |-> [k \in 1..Len(es) |-> socket_addr(es[k]).v],
                 kind |-> "Single"]
           ELSE Only({ [ok |-> TRUE, left |-> Flat(es, p + 1),
                        addresses |-> [k \in 1..(p - 1) |-> socket_addr(es[k]).v],
                        kind |-> "Eot"]
                       : p \in {CHOOSE q \in at : \A r \in at : q <= r} })
           : at \in {{k \in 1..Len(es) : es[k] = EOT}} })

\* C15: a discovery response made of address entries and terminal literals
\* decodes to the addresses before the first terminal literal, is flagged
\* complete iff it holds one, and the bytes after the first terminal literal
\* are left over.
C15_StopsAtFirstEot ==
    \A ext \in BOOLEAN : \A es \in EntryLists(ext) :
        ( /\ d_in = Hdr(ext) \o Flat(es, 1)
          /\ d_fn = (IF ext THEN "GetServersExtResponse::parse"
                     ELSE "GetServersResponse::parse") )
        => d_out = ExpectedDiscovery(es)

\* the decoder that was applied returned its error and no value
Rejected ==
    IF d_fn \in {"GetServersResponse::parse", "GetServersExtResponse::parse"}
    THEN d_out = [ok |-> FALSE]
    ELSE d_out = [kind |-> "ParseResponseError"]

\* C16: each of the four response decoders rejects a byte string that does
\* not start with the four marker bytes, strings shorter than four bytes
\* included.
C16_MarkerRequired ==
    ( /\ d_fn \in {"GetServersResponse::parse", "GetServersExtResponse::parse",
                  "InfoResponse::parse", "StatusResponse::parse"}
      /\ ~StartsWith(d_in, OOB) )
    => Rejected

\* a status response that is well-formed but for the last marker byte has
\* been handed to the status decoder
C16_Witness ==
    /\ d_fn = "StatusResponse::parse"
    /\ d_in = [StatusOk EXCEPT ![4] = 254]
    /\ Rejected

\* the texts sv_hostname, Test Server, gametype, ffa, Alice, Bob
T_sv_hostname == <<115, 118, 95, 104, 111, 115, 116, 110, 97, 109, 101>>
T_Test_Server == <<84, 101, 115, 116, 32, 83, 101, 114, 118, 101, 114>>
T_gametype == <<103, 97, 109, 101, 116, 121, 112, 101>>
T_ffa == <<102, 102, 97>>
T_Alice == <<65, 108, 105, 99, 101>>
T_Bob == <<66, 111, 98>>

\* the entries of the two key-value runs
ExpectedMap(kv) ==
    IF kv = B_kv THEN (<<97>> :> <<98>>)
    ELSE (T_sv_hostname :> T_Test_Server) @@ (T_gametype :> T_ffa)

\* the records of the two player lines whose integers fit 32 bits
ExpectedPlayer(line) ==
    IF line = L_Alice THEN [frags |-> 5, ping |-> 23, name |-> T_Alice, team |-> 1]
    ELSE [frags |-> -2, ping |-> 88, name |-> T_Bob, team |-> 2]

\* C17: a status response holding a key-value run, a newline and k >= 1
\* well-formed player lines decodes to the run's map and k player records in
\* wire order, each with the fields of its line.
C17_PlayersDecoded ==
    \A kv \in KvRuns : \A ls \in LineLists(WellFormedLines) :
        ( /\ ls # <<>>
          /\ d_in = StatusMsg(kv, <<NEWLINE>> \o Flat(ls, 1))
          /\ d_fn = "StatusResponse::parse" )
        => /\ d_out.kind = "Ok"
           /\ d_out.left = <<>>
           /\ d_out.key_values = ExpectedMap(kv)
           /\ Len(d_out.player_infos) = Len(ls)
           /\ \A k \in 1..Len(ls) :
                 ls[k] # L_Huge => d_out.player_infos[k] = ExpectedPlayer(ls[k])

\* C18: a status response whose player section holds a malformed line, as
\* its first line or after well-formed ones, is rejected.
C18_PartialPlayersRejected ==
    \A kv \in KvRuns : \A ls \in LineLists(WellFormedLines \cup MalformedLines) :
        ( /\ \E k \in 1..Len(ls) : ls[k] \in MalformedLines
          /\ d_in = StatusMsg(kv, <<NEWLINE>> \o Flat(ls, 1))
          /\ d_fn = "StatusResponse::parse" )
        => d_out = [kind |-> "ParseResponseError"]

\* C19: a status response is returned with an empty player list only with
\* everything after the key-value run left over, and when a newline follows
\* the run the outcome is a non-empty player list or the decode error.
C19_NoPlayersFallback ==
    \A kv \in KvRuns : \A tail \in StatusTails :
        (d_in = StatusMsg(kv, tail) /\ d_fn = "StatusResponse::parse")
        => /\ (d_out.kind = "Ok" /\ d_out.player_infos = <<>>) => d_out.left = tail
           /\ StartsWith(tail, <<NEWLINE>>)
                 => \/ d_out.kind = "Ok" /\ d_out.player_infos # <<>>
                    \/ d_out = [kind |-> "ParseResponseError"]

\* the positions of the backslashes of s, and the byte strings that are one
\* or more \key\value pairs: they start with a backslash, hold an even number
\* of backslashes, and every newline lies in a key, i.e. after an odd number
\* of backslashes
Backslashes(s) == {p \in 1..Len(s) : s[p] = BACKSLASH}
IsKvRun(s) ==
    /\ s # <<>> /\ s[1] = BACKSLASH
    /\ Cardinality(Backslashes(s)) % 2 = 0
    /\ \A p \in 1..Len(s) :
          s[p] = NEWLINE => Cardinality({q \in Backslashes(s) : q < p}) % 2 = 1

SetMin(S) == CHOOSE n \in S : \A m \in S : n <= m

\* the bytes from backslash p of s up to the next backslash or the end
Segment(s, p) ==
    SubSeq(s, p + 1, SetMin({q \in Backslashes(s) \cup {Len(s) + 1} : q > p}) - 1)

\* the (key, value) pairs of a run: a key starts at an odd backslash and its
\* value at the backslash that ends the key
PairsOf(s) ==
    { <<Segment(s, p), Segment(s, SetMin({q \in Backslashes(s) : q > p}))>>
      : p \in {q \in Backslashes(s) : Cardinality({r \in Backslashes(s) : r < q}) % 2 = 0} }

\* C20: key_value_map fails when no prefix of the input is a run of one or
\* more \key\value pairs; otherwise it consumes the longest such prefix and
\* yields a map whose keys are the keys of that prefix, each with the value
\* of one of its pairs.
C20_KeyValueRun ==
    d_fn = "key_value_map" =>
        LET runs == {n \in 1..Len(d_in) : IsKvRun(SubSeq(d_in, 1, n))}
            longest == CHOOSE n \in runs : \A m \in runs : m <= n
            pairs == PairsOf(SubSeq(d_in, 1, longest))
        IN IF runs = {} THEN d_out = PErr
           ELSE /\ d_out.k = "ok"
                /\ d_out.rest = SubSeq(d_in, longest + 1, Len(d_in))
                /\ DOMAIN d_out.v = {pr[1] : pr \in pairs}
                /\ \A pr \in pairs : <<pr[1], d_out.v[pr[1]]>> \in pairs

\* \sv_hostname\Test Server\gametype\ffa has been decoded to its two entries
C20_Witness ==
    /\ d_fn = "key_value_map"
    /\ d_in = B_kv2
    /\ d_out = POk(ExpectedMap(B_kv2), <<>>)

\* C21: socket_addr_v4 succeeds exactly on inputs of at least 7 bytes that
\* start with a backslash; it then consumes 7 bytes and yields the address
\* of bytes 1..4 and the port of bytes 5..6, most significant byte first.
C21_Ipv4Entry ==
    d_fn = "socket_addr_v4" =>
        IF Len(d_in) >= 7 /\ d_in[1] = BACKSLASH
        THEN /\ d_out.k = "ok"
             /\ d_out.v = [fam |-> 4,
                           ip |-> <<256 * d_in[2] + d_in[3], 256 * d_in[4] + d_in[5]>>,
                           port |-> 256 * d_in[6] + d_in[7]]
             /\ d_out.rest = SubSeq(d_in, 8, Len(d_in))
        ELSE d_out = PErr

\* 5C C0 00 02 01 6D 38 has been decoded to 192.0.2.1:27960
C21_Witness ==
    /\ d_fn = "socket_addr_v4"
    /\ d_in = <<92, 192, 0, 2, 1, 109, 56>>
    /\ d_out = POk([fam |-> 4, ip |-> <<192 * 256 + 0, 2 * 256 + 1>>, port |-> 27960], <<>>)

\* the dispatch of socket_addr with the IPv6 variant tried first
socket_addr_v6_first(i) ==
    Only({ IF r6.k = "ok" THEN r6 ELSE socket_addr_v4(i) : r6 \in {socket_addr_v6(i)} })

\* C22: socket_addr yields an IPv6 address, 19 bytes consumed, flow and scope
\* zero, only for a first byte '/' and then whenever 19 bytes are there; an
\* IPv4 address, 7 bytes consumed, only for a first byte '\' and then whenever
\* 7 bytes are there; it fails otherwise, and trying the variants in the
\* other order gives the same result.
C22_TagDispatch ==
    d_fn = "socket_addr" =>
        /\ d_out = socket_addr_v6_first(d_in)
        /\ IF Len(d_in) >= 19 /\ d_in[1] = SLASH
           THEN /\ d_out.k = "ok"
                /\ d_out.v = [fam |-> 6,
                              ip |-> [s \in 1..8 |-> 256 * d_in[2 * s] + d_in[2 * s + 1]],
                              port |-> 256 * d_in[18] + d_in[19],
                              flowinfo |-> 0, scope_id |-> 0]
                /\ d_out.rest = SubSeq(d_in, 20, Len(d_in))
           ELSE IF Len(d_in) >= 7 /\ d_in[1] = BACKSLASH
           THEN /\ d_out.k = "ok"
                /\ d_out.v.fam = 4
                /\ d_out.rest = SubSeq(d_in, 8, Len(d_in))
           ELSE d_out = PErr

\* the IPv6 entry of [2001:db8::1]:27960 followed by one byte was decoded
C22_Witness ==
    /\ d_fn = "socket_addr"
    /\ d_in = E_A6 \o <<1>>
    /\ d_out.k = "ok"
    /\ d_out.v.fam = 6
    /\ d_out.v.ip = <<8193, 3512, 0, 0, 0, 0, 0, 1>>
    /\ d_out.rest = <<1>>

\* the tokens of a byte string: the runs between its separator bytes
RECURSIVE Tokens(_, _)
Tokens(s, sep) ==
    IF \A k \in 1..Len(s) : s[k] # sep
    THEN <<s>>
    ELSE LET p == SetMin({k \in 1..Len(s) : s[k] = sep})
         IN <<SubSeq(s, 1, p - 1)>> \o Tokens(SubSeq(s, p + 1, Len(s)), sep)

T_full == <<102, 117, 108, 108>>
T_ipv4 == <<105, 112, 118, 52>>
T_ipv6 == <<105, 112, 118, 54>>
OptToken(o) == IF o.some THEN <<o.v>> ELSE <<>>
FlagToken(flag, word) == IF flag THEN <<word>> ELSE <<>>

\* the tokens a discovery request is to consist of, in order
RequestTokens(call) ==
    <<PREFIX \o (IF call.fn = "write_get_servers_ext"
                 THEN B_getserversExt ELSE B_getservers)>>
    \o OptToken(call.game_name)
    \o <<call.protocol_version>>
    \o FlagToken(call.filter.empty, B_word_empty)
    \o FlagToken(call.filter.full, T_full)
    \o OptToken(call.filter.gametype)
    \o (IF call.fn = "write_get_servers_ext"
        THEN FlagToken(call.filter.ipv4, T_ipv4) \o FlagToken(call.filter.ipv6, T_ipv6)
        ELSE <<>>)

\* C23: the bytes emitted by write_get_servers / write_get_servers_ext are,
\* separated by single spaces and in this order: marker+command word, the game
\* name (always for the Ext form, iff one is given otherwise), the protocol
\* version, "empty" iff filter.empty, "full" iff filter.full, the game type iff
\* one is given and, for the Ext form, "ipv4" iff filter.ipv4 and "ipv6" iff
\* filter.ipv6; nothing precedes the marker and nothing follows the last token.
C23_RequestEncoding ==
    (w_call.fn \in {"write_get_servers", "write_get_servers_ext"} /\ w_out # NoResult)
        => /\ Tokens(w_out.bytes, SPACE) = RequestTokens(w_call)
           /\ Len(w_out.bytes) =
                  Len(PREFIX)
                  + (IF w_call.fn = "write_get_servers_ext" THEN 13 ELSE 10)
                  + (IF w_call.game_name.some THEN 1 + Len(w_call.game_name.v) ELSE 0)
                  + 1 + Len(w_call.protocol_version)
                  + (IF w_call.filter.empty THEN 6 ELSE 0)
                  + (IF w_call.filter.full THEN 5 ELSE 0)
                  + (IF w_call.filter.gametype.some
                     THEN 1 + Len(w_call.filter.gametype.v) ELSE 0)
                  + (IF w_call.fn = "write_get_servers_ext"
                     THEN (IF w_call.filter.ipv4 THEN 5 ELSE 0)
                          + (IF w_call.filter.ipv6 THEN 5 ELSE 0)
                     ELSE 0)

\* C23 witness: "getservers Warfork 26 empty full ffa" has been emitted
C23_Witness ==
    /\ w_call.fn = "write_get_servers"
    /\ w_call.game_name = Some(B_Warfork)
    /\ w_call.filter = [empty |-> TRUE, full |-> TRUE, gametype |-> Some(B_ffa)]
    /\ w_out # NoResult
    /\ w_out.bytes = <<255, 255, 255, 255, 103, 101, 116, 115, 101, 114, 118, 101, 114, 115,
                       32, 87, 97, 114, 102, 111, 114, 107, 32, 50, 54,
                       32, 101, 109, 112, 116, 121, 32, 102, 117, 108, 108,
                       32, 102, 102, 97>>

\* C24: the bytes emitted by write_get_servers determine its input: no other
\* (game name, protocol version, filter) makes write_get_servers emit the same
\* bytes, so that a decoder of the request grammar can recover the fields.
C24_RoundTrip ==
    (w_call.fn = "write_get_servers" /\ w_out # NoResult)
        => \A c \in EncodeCallsV4 :
               write_get_servers(c.game_name, c.protocol_version, c.filter).bytes
                   = w_out.bytes
               => c = w_call

\* the charset rule as the claim states it is violated by one of the five
\* excluded characters or by a byte that is not ASCII
ViolatesCharset(c) ==
    \E k \in 1..Len(c) : c[k] \in {92, 47, 59, 34, 37} \/ c[k] > 127

\* C25: a call of Game::get_info / get_status whose challenge violates the
\* charset rule writes nothing into the send buffer (the writer it hands to
\* write_get_info / write_get_status), hands no datagram to send_to, does not
\* enter the receive loop and returns InvalidChallengeCharacter.
C25_InvalidChallengeStaysLocal ==
    [][(g_calls' = g_calls + 1 /\ ViolatesCharset(g_challenge'))
          => /\ g_send_buf' = g_send_buf
             /\ g_sent' = <<>>
             /\ g_received' = <<>>
             /\ g_asked' = g_asked
             /\ g_pc' = "done"
             /\ g_result' = [kind |-> IF g_op' = "info" THEN "WriteGetInfoError"
                                      ELSE "WriteGetStatusError",
                             err |-> "InvalidChallengeCharacter"]]_vars

\* C25 witness: on a client whose send buffer holds an earlier request, a
\* second call with the challenge `a/b` has returned the error
C25_Witness ==
    /\ g_calls = 2
    /\ g_challenge = <<97, 47, 98>>
    /\ g_pc = "done"
    /\ g_result.kind = "WriteGetInfoError"
    /\ g_sent = <<>>
    /\ BufSlice(g_send_buf, 0, 16) = PREFIX \o B_getinfo \o <<SPACE>> \o B_1234

Excluded == {92, 47, 59, 34, 37}       \* '\', '/', ';', '"', '%'
WriterReturned == w_call.fn \in {"write_get_info", "write_get_status"} /\ w_out # NoResult

C27_DecodingTotal ==
    d_fn = "StatusResponse::parse" => d_out.kind \in {"Ok", "ParseResponseError"}

\* C28: on a client used for several calls, a response returned by
\* get_info / get_status that echoes a challenge echoes the challenge of the
\* call that returns it, never that of an earlier call on the same socket.
C28_ReplyCorrelation ==
    (g_pc = "done" /\ g_result.kind = "Ok" /\ B_challenge \in DOMAIN g_result.key_values)
        => g_result.key_values[B_challenge] = g_challenge

\* the offset behind the first n datagrams in the scan after the loop
RECURSIVE OffsetAfter(_, _)
OffsetAfter(writes, n) == IF n = 0 THEN 0 ELSE OffsetAfter(writes, n - 1) + writes[n]

\* C29: every index range that get_servers / get_servers_ext use on the
\* 1400-byte receive buffer lies inside it: the window [end-7, end) tested for
\* the terminal marker after each datagram starts at 0 or above and ends at
\* 1400 or below, and so does every range [pos, pos+written) of the scan that
\* re-slices the datagrams once the loop is left.
C29_IndicesInsideBuffer ==
    /\ \A n \in 1..Len(m_writes) :
          /\ m_recv_pos + m_writes[n] - 7 >= 0
          /\ m_recv_pos + m_writes[n] <= MAX_PACKET_LEN
    /\ m_end # "none"
          => \A n \in 1..Len(m_writes) : OffsetAfter(m_writes, n) <= MAX_PACKET_LEN

RECURSIVE JoinTokens(_, _)
JoinTokens(tokens, n) ==
    IF n = 1 THEN tokens[1] ELSE JoinTokens(tokens, n - 1) \o <<SPACE>> \o tokens[n]

\* the encoding of the running discovery call's request
MasterRequestBytes ==
    Only({ JoinTokens(t, Len(t))
           : t \in {RequestTokens([fn |-> IF m_ext THEN "write_get_servers_ext"
                                          ELSE "write_get_servers",
                                   game_name |-> m_req.game_name,
                                   protocol_version |-> m_req.protocol_version,
                                   filter |-> m_req.filter])} })

\* the encoding of the running per-server call's request
GameRequestBytes ==
    PREFIX \o (IF g_op = "info" THEN B_getinfo ELSE B_getstatus) \o <<SPACE>> \o g_challenge

\* C30: the datagram a call hands to send_to is exactly the encoding of that
\* call's request (marker, command word and the call's own arguments), with
\* no byte more and no byte less, also when the send buffer still holds the
\* bytes of an earlier, longer request.
C30_DatagramIsRequest ==
    /\ \A n \in 1..Len(m_sent) : m_sent[n].data = MasterRequestBytes
    /\ \A n \in 1..Len(g_sent) : g_sent[n].data = GameRequestBytes

\* C30 witness: the second call of a discovery client has sent the 17 bytes of
\* "getservers 26" while the send buffer holds the rest of the 31-byte request
\* "getservers Warfork 26 empty" of the first call behind them
C30_Witness ==
    /\ m_calls = 2
    /\ Len(m_sent) = 1
    /\ Len(m_sent[1].data) = 17
    /\ m_sent[1].data = PREFIX \o B_getservers \o <<SPACE>> \o B_26
    /\ Len(m_send_buf) >= 31
    /\ SubSeq(m_send_buf, 18, 31) = <<114, 102, 111, 114, 107, 32, 50, 54,
                                      32, 101, 109, 112, 116, 121>>

\* the datagrams among ds[n..] whose source is the configured master address
RECURSIVE FromMaster(_, _, _)
FromMaster(ds, from, n) ==
    IF n > Len(ds) THEN <<>>
    ELSE (IF from[n] = MasterAddr THEN <<ds[n]>> ELSE <<>>) \o FromMaster(ds, from, n + 1)

Elems(q) == {q[n] : n \in 1..Len(q)}

\* C31: every address returned by get_servers / get_servers_ext is one
\* decoded from a datagram whose source is the configured master address,
\* and the query is never ended by a datagram of another source.
C31_DiscoverySourceCheck ==
    /\ (m_pc = "done" /\ m_result.kind = "Ok")
          => Elems(m_result.addresses)
                 \subseteq Elems(DecodedAddresses(m_ext,
                                                  FromMaster(m_received, m_from, 1), 1))
    /\ m_end = "eot" => Last(m_from) = MasterAddr

\* 69.79.84.0 port 0: the IPv4 entry that the bytes 5C 45 4F 54 00 00 00 spell
CollidingAddress == [fam |-> 4, ip |-> <<69 * 256 + 79, 84 * 256 + 0>>, port |-> 0]

DiscoveryDecoded ==
    /\ d_fn \in {"GetServersResponse::parse", "GetServersExtResponse::parse"}
    /\ d_out.ok

\* C32: the address list returned by getserversResponse /
\* getserversExtResponse never contains 69.79.84.0:0; in a response made of
\* address entries and terminal literals every terminal literal is consumed as
\* such and every other entry as an address, so the list has as many addresses
\* as the response has entries other than the terminal literal.
C32_MarkerWinsCollision ==
    /\ DiscoveryDecoded
          => \A n \in 1..Len(d_out.addresses) : d_out.addresses[n] # CollidingAddress
    /\ \A ext \in BOOLEAN : \A es \in EntryLists(ext) :
          ( /\ d_in = Hdr(ext) \o Flat(es, 1)
            /\ d_fn = (IF ext THEN "GetServersExtResponse::parse"
                       ELSE "GetServersResponse::parse") )
          => /\ d_out.ok
             /\ d_out.left = <<>>
             /\ Len(d_out.addresses) = Cardinality({n \in 1..Len(es) : es[n] # EOT})

\* C32 witness: the response `\192.0.2.1:27960 \EOT\0\0\0` has been decoded to
\* the one address 192.0.2.1:27960, flagged complete
C32_Witness ==
    /\ d_fn = "GetServersResponse::parse"
    /\ d_in = HdrV4 \o E_A1 \o EOT
    /\ d_out.ok
    /\ d_out.kind = "Eot"
    /\ d_out.addresses = <<[fam |-> 4, ip |-> <<192 * 256 + 0, 2 * 256 + 1>>, port |-> 27960]>>

\* C33: for every combination of the flags, create_get_servers and
\* create_get_servers_ext build marker+command, name and protocol version
\* separated by single spaces, followed by " empty" iff the `empty` argument is
\* true and then " full" iff the `full` argument is true, and nothing else.
C33_LegacyBuilders ==
    (w_call.fn \in {"create_get_servers", "create_get_servers_ext"} /\ w_out # NoResult)
        => Tokens(w_out.bytes, SPACE)
               = <<PREFIX \o (IF w_call.fn = "create_get_servers_ext"
                              THEN B_getserversExt ELSE B_getservers),
                   w_call.name, w_call.protocol_version>>
                 \o FlagToken(w_call.empty, B_word_empty)
                 \o FlagToken(w_call.full, T_full)

====
